---- MODULE Spec2Model ----
(***************************************************************************)
(* RHI_CommandList, D3D12 backend                                          *)
(* (runtime/RHI/D3D12/D3D12_CommandList.cpp).                              *)
(*                                                                         *)
(* One command list is driven by one recording thread.  Every public       *)
(* operation of the list is one action: the whole body of the method, from *)
(* its first assertion to its last statement.  A failed SP_ASSERT ends the *)
(* process: it is recorded in `fatal` and no operation follows it.         *)
(*                                                                         *)
(* RHI_Pipeline, Vulkan backend (runtime/RHI/Vulkan/Vulkan_Pipeline.cpp).  *)
(*                                                                         *)
(* One pipeline object is constructed from a pipeline state and a          *)
(* descriptor set layout.  The constructor is one action; SpecPipeline is  *)
(* the specification of the pipeline object.                               *)
(***************************************************************************)
EXTENDS Integers, Sequences, FiniteSets, TLC

\* ------------------------------------------------------------------ bounds

\* Calls made on the list in one run.
MaxCalls == 5
\* Distinct vertex / index buffer objects that callers pass.
NumBuffers == 2
\* Largest width and height of a source texture.
MaxDim == 3
\* Size of the swap chain that Blit and Copy write to.
SwapChainWidth == 2
SwapChainHeight == 2
\* Colour render target slots of a pipeline state (rhi_max_render_target_count).
rhi_max_render_target_count == 3
\* Descriptors in the descriptor set layout given to a pipeline.
MaxDescriptors == 2
\* RHI_Device::PropertyGetMaxPushConstantSize(), in bytes.
MaxPushConstantSize == 2
\* Largest location of an attribute in a vertex shader's input layout.
MaxLocation == 3

\* ------------------------------------------------------- values and types

\* Object ids of the buffers (SpartanObject ids are generated from 1 upwards).
Buffers == 1 .. NumBuffers
\* Threads that record a command list each, and the bind calls each makes.
NumThreads == 2
MaxThreadCalls == 2
Threads == 1 .. NumThreads
\* Renderer::number_shaders: the slots of the renderer's shader array.
number_shaders == 2
ShaderSlots == 1 .. number_shaders
\* The last-write times a shader file goes through: 1 .. MaxWriteTime.
MaxWriteTime == 2
\* World::GetAllEntities(): the entities of the world; NoEntity: the empty
\* m_selected_entity.
NumEntities == 3
Entities == 1 .. NumEntities
NoEntity == 0
\* Hit distances are 0 .. MaxDistance; above them numeric_limits<float>::max()
\* and Helper::INFINITY_ (no hit).
MaxDistance == 2
FloatMaxDistance == MaxDistance + 1
INFINITY_ == MaxDistance + 2
\* Where the mouse is on the display, left to right.
MousePositions == {"edge_left", "near_left", "centre", "near_right", "edge_right"}
Dims == 1 .. MaxDim

\* m_vertex_buffer_id / m_index_buffer_id before any bind.
NoBufferId == 0

\* RHI_CommandListState
States == {"Idle", "Recording", "Ended", "Submitted"}

\* m_state of a newly constructed list.
InitialState == "Idle"

\* The ID3D12GraphicsCommandList methods the file calls.
NativeCalls ==
    {"Reset", "Close", "DrawInstanced", "DrawIndexedInstanced", "Dispatch",
     "RSSetViewports", "RSSetScissorRects", "IASetVertexBuffers", "IASetIndexBuffer"}

\* Profiler counters the file increments.
ProfilerCounters ==
    {"m_rhi_draw", "m_rhi_dispatch", "m_rhi_bindings_buffer_vertex",
     "m_rhi_bindings_buffer_index"}

\* Why the process ended; NoFatal while it runs.
NoFatal == "none"
FatalState == "state"                       \* SP_ASSERT(m_state == ...)
FatalNull == "null"                         \* SP_ASSERT(m_rhi_resource != nullptr)
FatalBackend == "backend"                   \* a native call returned a failure
FatalPrecondition == "precondition"         \* texture flag / dimension assertion
FatalNotImplemented == "not_implemented"    \* SP_ASSERT_MSG(false, "Function is not implemented")

FatalPushConstantSize == "push_constant_size"  \* SP_ASSERT(struct_size <= max)

LifecycleOps == {"Begin", "End", "Submit"}

\* ---------------------------------------------- values of the pipeline object

\* A null pointer or null handle.
Null == "null"

\* sizeof(Math::Matrix) and sizeof(Math::Vector4), in bytes.
SizeofMatrix == 64
SizeofVector4 == 16

\* An RHI_Shader*: null (NoShader), or a shader whose GetRhiResource() (module)
\* and GetEntryPoint() (entry) are non-null or not.  input_layout: whether
\* GetInputLayout() is non-null; locations: the location of each of its
\* attribute descriptions, in their order.
NoShader ==
    [present |-> FALSE, module |-> FALSE, entry |-> FALSE,
     input_layout |-> FALSE, locations |-> <<>>]

Shaders ==
    {NoShader} \cup
    [present : {TRUE}, module : BOOLEAN, entry : BOOLEAN,
     input_layout : {FALSE}, locations : {<<>>}]

ValidShader ==
    [present |-> TRUE, module |-> TRUE, entry |-> TRUE,
     input_layout |-> FALSE, locations |-> <<>>]

\* The elements of a set of numbers as a sequence, smallest first.
RECURSIVE Ascending(_)
Ascending(S) ==
    IF S = {} THEN <<>>
    ELSE LET least == CHOOSE x \in S : \A y \in S : x <= y
         IN  <<least>> \o Ascending(S \ {least})

\* A valid vertex shader with an input layout whose attributes are at the
\* locations in S (S empty: a layout without attributes), or without one.
VertexShader(has_layout, S) ==
    [ValidShader EXCEPT !.input_layout = has_layout,
                        !.locations = IF has_layout THEN Ascending(S) ELSE <<>>]

\* The shader stages the constructor looks at.
Stages == {"vertex", "pixel", "compute"}

\* m_state.render_target_color_textures: per slot, whether a texture is set.
ColorTextures == [1 .. rhi_max_render_target_count -> BOOLEAN]

NoColorTextures == [i \in 1 .. rhi_max_render_target_count |-> FALSE]

\* Significant bits of a float (IEEE 754 single precision).
FloatMantissaBits == 24
\* Every finite float is below 2^FloatMaxExponent in magnitude, and a multiple
\* of 2^FloatMinExponent.
FloatMaxExponent == 128
FloatMinExponent == -149
\* The depth bias is multiplied by (float)(1 << DepthBiasShift).
DepthBiasShift == 24

\* A float that is not an integer of the model's range is written m * 2^e, with
\* m odd (or zero, with e = 0); an infinity has inf set and m = 1 or -1.
FloatZero == [m |-> 0, e |-> 0, inf |-> FALSE]

\* An RHI_RasterizerState*: null, or a rasterizer state with its depth bias.
NoRasterizerState == [present |-> FALSE, depth_bias |-> FloatZero]

\* An RHI_Texture* used as the depth render target: null, or a texture with
\* its format.
NoDepthTexture == [present |-> FALSE, format |-> "Undefined"]

\* m_state.GetWidth(), m_state.GetHeight(): small sizes, a common size, and
\* sizes at and above the largest integer up to which a float holds every integer.
ViewportDimensions ==
    {1, 2, 1920, 2^FloatMantissaBits, 2^FloatMantissaBits + 1, 2^FloatMantissaBits + 3}

\* A default-constructed RHI_PipelineState: every reference is null, every flag
\* is off, the size is zero.
\* blend_state and render_target_swapchain: whether the pointer is non-null.
DefaultPipelineState ==
    [shader_vertex |-> NoShader, shader_pixel |-> NoShader, shader_compute |-> NoShader,
     blend_state |-> FALSE, render_target_swapchain |-> FALSE,
     render_target_color_textures |-> NoColorTextures,
     dynamic_scissor |-> FALSE, width |-> 0, height |-> 0,
     is_fullscreen_triangle |-> FALSE, instancing |-> FALSE,
     rasterizer_state |-> NoRasterizerState, depth_stencil_state |-> FALSE,
     render_target_depth_texture |-> NoDepthTexture]

\* The three descriptor set layout handles, in the order of the array:
\* the caller's, sampler_comparison, sampler_regular.  TRUE: non-null.
LayoutHandles == [1 .. 3 -> BOOLEAN]

ValidLayouts == [i \in 1 .. 3 |-> TRUE]

\* RHI_Descriptor, the fields the constructor reads.
DescriptorTypes == {"PushConstantBuffer", "Texture"}

StructSizes == {MaxPushConstantSize, MaxPushConstantSize + 1}

Descriptors == [type : DescriptorTypes, struct_size : StructSizes, stage : SUBSET Stages]

\* descriptor_set_layout->GetDescriptors(), for a layout of n descriptors.
DescriptorLists(n) == [1 .. n -> Descriptors]

\* Which Vulkan creation call fails, if any.
VkFailures == {"none", "vkCreatePipelineLayout", "vkCreatePipeline"}

\* No creation call has been made.
NoCreateInfo == [kind |-> "none"]

VARIABLES
    m_state,             \* RHI_CommandListState m_state
    m_rhi_resource,      \* "handle": the native command list; "null": none
    m_vertex_buffer_id,  \* cached id of the bound vertex buffer
    m_index_buffer_id,   \* cached id of the bound index buffer
    profiler,            \* Profiler::m_rhi_* counters
    d3d12,               \* native calls issued on the command list, by method
    fatal,               \* NoFatal, or the assertion that ended the process
    call,                \* the operation invoked last, with its arguments
    ncalls,              \* operations invoked so far
    lifecycle,           \* the Begin / End / Submit calls invoked so far, in order
    vb_calls,            \* the buffer of each SetBufferVertex call of the current recording, in order
    pipeline_state,              \* RHI_Pipeline::m_state, the pipeline state given to the constructor
    layouts,                     \* the three descriptor set layout handles the constructor gathered
    descriptors,                 \* descriptor_set_layout->GetDescriptors() of the caller's layout
    m_resource_pipeline_layout,  \* Null or "layout": the VkPipelineLayout
    pipeline_layout_info,        \* the create info given to vkCreatePipelineLayout
    m_resource_pipeline,         \* Null, "graphics" or "compute": the VkPipeline
    pipeline_info,               \* the create info given to vkCreate*Pipelines
    constructed,                 \* the RHI_Pipeline constructor has returned
    destroyed,                   \* the RHI_Pipeline destructor has run
    deletion_queue,              \* RHI_Device's deletion queue: entries [type, resource], in order
    released,                    \* the entries the device has destroyed
    lists,                       \* per recording thread: its own command list and where the thread is
    shaders,                     \* Renderer::GetShaders(): per slot, whether the shader is non-null
    files,                       \* per slot, the shader's file: whether it exists, its last-write time
    map,                         \* the reload task's map: per shader, the time recorded (0: no entry)
    compiles,                    \* per shader, the Compile calls of the reload task that returned
    writes,                      \* per shader, the modifications of its file since the task started
    reloader,                    \* the reload task: where it is, the slot it visits, the time it read
    in_use,                      \* the shaders another thread (renderer, shader editor) is using
    camera,                      \* Camera: the control flags, the saved mouse position, the selected entity
    input_state,                 \* Input / Window as the last ProcessInputFpsControl call read and left them
    pick                         \* the last Pick call: whether the mouse was in the viewport, per entity the distance to its box

vars ==
    <<m_state, m_rhi_resource, m_vertex_buffer_id, m_index_buffer_id, profiler,
      d3d12, fatal, call, ncalls, lifecycle, vb_calls,
      pipeline_state, layouts, descriptors, m_resource_pipeline_layout,
      pipeline_layout_info,
      m_resource_pipeline,
      pipeline_info, constructed, destroyed, deletion_queue, released, lists,
      shaders, files, map, compiles, writes, reloader, in_use, camera, input_state, pick>>

\* The fields of the list and of the profiler, and the native call log.
program == <<m_state, m_rhi_resource, m_vertex_buffer_id, m_index_buffer_id, profiler, d3d12>>

\* The pipeline object and what its constructor was given.
pipeline ==
    <<pipeline_state, layouts, descriptors, m_resource_pipeline_layout,
      pipeline_layout_info,
      m_resource_pipeline,
      pipeline_info, constructed, destroyed, deletion_queue, released>>

\* The pipeline object's end and the device's deletion queue.
lifetime == <<destroyed, deletion_queue, released>>

\* What the components other than the one command list and the pipeline hold.
elsewhere ==
    <<lists, shaders, files, map, compiles, writes, reloader, in_use, camera, input_state, pick>>

\* The camera component and what its calls read.
camera_component == <<camera, input_state, pick>>

\* The shader reload task and the files it watches.
shader_reload == <<shaders, files, map, compiles, writes, reloader>>

\* The command list and what its caller has done.
commandlist ==
    <<m_state, m_rhi_resource, m_vertex_buffer_id, m_index_buffer_id, profiler,
      d3d12, call, ncalls, lifecycle, vb_calls>>

\* An invocation record: the operation, the arguments that matter to it, and
\* steps: the calls its body made out of the method, in the order it made them
\* (the list's other methods, RHI_Device, the native command list, the Profiler).
Call(op) ==
    [op |-> op, buffer |-> NoBufferId, clear_blit |-> FALSE,
     sw |-> 0, sh |-> 0, dw |-> 0, dh |-> 0, steps |-> <<>>]

WithSteps(c, steps) == [c EXCEPT !.steps = steps]

CallBuffer(op, b) == [Call(op) EXCEPT !.buffer = b]

CallTexture(op, flag, sw, sh, dw, dh) ==
    [Call(op) EXCEPT !.clear_blit = flag, !.sw = sw, !.sh = sh, !.dw = dw, !.dh = dh]

\* ------------------------------------------------------------ construction

\* The camera as constructed: not controlled, the cursor not hidden, nothing
\* selected.
CameraDefaults ==
    [m_is_controlled_by_keyboard_mouse |-> FALSE,
     m_fps_control_cursor_hidden |-> FALSE,
     m_mouse_last_position |-> "centre",
     m_selected_entity |-> NoEntity]

\* RHI_CommandList::RHI_CommandList: the pool is non-null and CreateCommandList
\* succeeded (both asserted), so the native handle exists.  No pipeline object
\* has been constructed.
Init ==
    /\ m_state = InitialState
    /\ m_rhi_resource = "handle"
    /\ m_vertex_buffer_id = NoBufferId
    /\ m_index_buffer_id = NoBufferId
    /\ profiler = [c \in ProfilerCounters |-> 0]
    /\ d3d12 = [n \in NativeCalls |-> 0]
    /\ fatal = NoFatal
    /\ call = Call("construct")
    /\ ncalls = 0
    /\ lifecycle = <<>>
    /\ vb_calls = <<>>
    /\ pipeline_state = DefaultPipelineState
    /\ layouts = ValidLayouts
    /\ descriptors = <<>>
    /\ m_resource_pipeline_layout = Null
    /\ pipeline_layout_info = NoCreateInfo
    /\ m_resource_pipeline = Null
    /\ pipeline_info = NoCreateInfo
    /\ constructed = FALSE
    /\ destroyed = FALSE
    /\ deletion_queue = <<>>
    /\ released = {}
    /\ lists = [t \in Threads |->
                   [pc |-> "start", m_vertex_buffer_id |-> NoBufferId,
                    m_index_buffer_id |-> NoBufferId, loaded |-> 0, calls |-> 0,
                    IASetVertexBuffers |-> 0, IASetIndexBuffer |-> 0]]
    /\ shaders = [s \in ShaderSlots |-> FALSE]
    /\ files = [s \in ShaderSlots |-> [exists |-> FALSE, time |-> 1]]
    /\ map = [s \in ShaderSlots |-> 0]
    /\ compiles = [s \in ShaderSlots |-> 0]
    /\ writes = [s \in ShaderSlots |-> 0]
    /\ reloader = [pc |-> "unstarted", index |-> 1, d |-> 0]
    /\ in_use = {}
    /\ camera = CameraDefaults
    /\ input_state = [key_down |-> FALSE, key |-> FALSE, mouse_in_viewport |-> FALSE,
                fullscreen |-> FALSE, mouse_position |-> "centre",
                cursor_visible |-> TRUE]
    /\ pick = [mouse_in_viewport |-> FALSE, distance |-> [e \in Entities |-> INFINITY_]]

\* ---------------------------------------------------------------- helpers

\* The caller invokes operation c: possible while the process runs.
Invoke(c) ==
    /\ fatal = NoFatal
    /\ call.op # "~RHI_CommandList"
    /\ ncalls < MaxCalls
    /\ ncalls' = ncalls + 1
    /\ call' = c
    /\ lifecycle' = IF c.op \in LifecycleOps THEN Append(lifecycle, c.op) ELSE lifecycle
    /\ UNCHANGED <<pipeline, elsewhere>>

\* A failed SP_ASSERT / SP_ASSERT_MSG: the process ends where it stands.
Abort(why) ==
    /\ fatal' = why
    /\ UNCHANGED <<program, vb_calls>>

\* The method returns normally.
Return == fatal' = NoFatal

Issue(log, native) == [log EXCEPT ![native] = @ + 1]

Count(p, counter) == [p EXCEPT ![counter] = @ + 1]

\* RHI_CommandList::WaitForExecution: returns once the GPU has finished the
\* list's prior submission and leaves the list Idle.  Submit() of this backend
\* queues nothing, so there is never a submission to wait for.
WaitForExecution == "Idle"

\* ---------------------------------------------------------------- lifecycle

\* Begin without SP_ASSERT(m_state == RHI_CommandListState::Idle).
Begin_NoStateAssert(reset_ok) ==
    /\ Invoke(Call("Begin"))
    /\ fatal' = IF reset_ok THEN NoFatal ELSE FatalBackend
    /\ d3d12' = Issue(d3d12, "Reset")
    /\ m_state' = IF reset_ok THEN "Recording" ELSE m_state
    /\ vb_calls' = IF reset_ok THEN <<>> ELSE vb_calls
    /\ UNCHANGED <<m_rhi_resource, m_vertex_buffer_id, m_index_buffer_id, profiler>>

\* RHI_CommandList::Begin; reset_ok: ID3D12GraphicsCommandList::Reset succeeds.
Begin(reset_ok) ==
    LET waited == IF m_state = "Submitted" THEN WaitForExecution ELSE m_state
        steps == (IF m_state = "Submitted" THEN <<"WaitForExecution">> ELSE <<>>)
                 \o (IF m_rhi_resource # "null" /\ waited = "Idle" THEN <<"Reset">> ELSE <<>>)
    IN
    /\ Invoke(WithSteps(Call("Begin"), steps))
    /\ IF m_rhi_resource = "null" THEN
           /\ fatal' = FatalNull
           /\ m_state' = waited
           /\ UNCHANGED <<m_rhi_resource, m_vertex_buffer_id, m_index_buffer_id,
                          profiler, d3d12, vb_calls>>
       ELSE IF waited # "Idle" THEN
           /\ fatal' = FatalState
           /\ m_state' = waited
           /\ UNCHANGED <<m_rhi_resource, m_vertex_buffer_id, m_index_buffer_id,
                          profiler, d3d12, vb_calls>>
       ELSE IF ~reset_ok THEN
           /\ fatal' = FatalBackend
           /\ m_state' = waited
           /\ d3d12' = Issue(d3d12, "Reset")
           /\ UNCHANGED <<m_rhi_resource, m_vertex_buffer_id, m_index_buffer_id,
                          profiler, vb_calls>>
       ELSE
           /\ Return
           /\ d3d12' = Issue(d3d12, "Reset")
           /\ m_state' = "Recording"
           /\ vb_calls' = <<>>
           /\ UNCHANGED <<m_rhi_resource, m_vertex_buffer_id, m_index_buffer_id, profiler>>

\* End without SP_ASSERT(m_state == RHI_CommandListState::Recording).
End_NoStateAssert(close_ok) ==
    /\ Invoke(Call("End"))
    /\ fatal' = IF close_ok THEN NoFatal ELSE FatalBackend
    /\ d3d12' = Issue(d3d12, "Close")
    /\ m_state' = IF close_ok THEN "Ended" ELSE m_state
    /\ UNCHANGED <<m_rhi_resource, m_vertex_buffer_id, m_index_buffer_id, profiler, vb_calls>>

\* RHI_CommandList::End; close_ok: ID3D12GraphicsCommandList::Close succeeds.
End(close_ok) ==
    /\ Invoke(WithSteps(Call("End"),
                        IF m_rhi_resource # "null" /\ m_state = "Recording"
                            THEN <<"Close">> ELSE <<>>))
    /\ IF m_rhi_resource = "null" THEN Abort(FatalNull)
       ELSE IF m_state # "Recording" THEN Abort(FatalState)
       ELSE IF ~close_ok THEN
           /\ fatal' = FatalBackend
           /\ d3d12' = Issue(d3d12, "Close")
           /\ UNCHANGED <<m_state, m_rhi_resource, m_vertex_buffer_id, m_index_buffer_id,
                          profiler, vb_calls>>
       ELSE
           /\ Return
           /\ d3d12' = Issue(d3d12, "Close")
           /\ m_state' = "Ended"
           /\ UNCHANGED <<m_rhi_resource, m_vertex_buffer_id, m_index_buffer_id,
                          profiler, vb_calls>>

\* Submit that waits until the queues have drained before it returns.
Submit_Waits ==
    /\ Invoke(WithSteps(Call("Submit"), <<"QueueWaitAll">>))
    /\ Return
    /\ UNCHANGED <<program, vb_calls>>

\* RHI_CommandList::Submit: an empty body.
Submit ==
    /\ Invoke(Call("Submit"))
    /\ Return
    /\ UNCHANGED <<program, vb_calls>>

\* ------------------------------------------------------ draw and dispatch

\* RHI_CommandList::OnDraw: SP_ASSERT_MSG(false, "Function is not implemented").
OnDrawAsserts == TRUE

\* The body with the profiler counter incremented on entry.
DrawBody_CountOnEntry(op, native, counter) ==
    /\ Invoke(WithSteps(Call(op), IF m_state # "Recording" THEN <<counter>>
                                  ELSE <<counter, "OnDraw">>))
    /\ fatal' = IF m_state # "Recording" THEN FatalState ELSE FatalNotImplemented
    /\ profiler' = Count(profiler, counter)
    /\ UNCHANGED <<m_state, m_rhi_resource, m_vertex_buffer_id, m_index_buffer_id,
                   d3d12, vb_calls>>

\* The body with the native call issued before the pre-draw hook.
DrawBody_NativeBeforeHook(op, native, counter) ==
    /\ Invoke(WithSteps(Call(op), IF m_state # "Recording" THEN <<>>
                                  ELSE <<native, "OnDraw">>))
    /\ IF m_state # "Recording" THEN Abort(FatalState)
       ELSE
           /\ fatal' = FatalNotImplemented
           /\ d3d12' = Issue(d3d12, native)
           /\ UNCHANGED <<m_state, m_rhi_resource, m_vertex_buffer_id, m_index_buffer_id,
                          profiler, vb_calls>>

\* The common body of Draw, DrawIndexed and Dispatch: the state check, the
\* pre-draw hook, the native call, the profiler counter.
DrawBody(op, native, counter) ==
    /\ Invoke(WithSteps(Call(op),
                        IF m_state # "Recording" THEN <<>>
                        ELSE IF OnDrawAsserts THEN <<"OnDraw">>
                        ELSE <<"OnDraw", native, counter>>))
    /\ IF m_state # "Recording" THEN Abort(FatalState)
       ELSE IF OnDrawAsserts THEN Abort(FatalNotImplemented)
       ELSE
           /\ Return
           /\ d3d12' = Issue(d3d12, native)
           /\ profiler' = Count(profiler, counter)
           /\ UNCHANGED <<m_state, m_rhi_resource, m_vertex_buffer_id, m_index_buffer_id,
                          vb_calls>>

\* RHI_CommandList::Draw
Draw == DrawBody("Draw", "DrawInstanced", "m_rhi_draw")

\* RHI_CommandList::DrawIndexed
DrawIndexed == DrawBody("DrawIndexed", "DrawIndexedInstanced", "m_rhi_draw")

\* RHI_CommandList::Dispatch
Dispatch == DrawBody("Dispatch", "Dispatch", "m_rhi_dispatch")

\* ------------------------------------------- swap chain blit and copy

\* Blit that compares the sizes with < in place of <=.
Blit_StrictlySmaller(flag, sw, sh, dw, dh) ==
    /\ Invoke(CallTexture("Blit", flag, sw, sh, dw, dh))
    /\ IF ~flag THEN Abort(FatalPrecondition)
       ELSE IF ~(sw < dw /\ sh < dh) THEN Abort(FatalPrecondition)
       ELSE Return /\ UNCHANGED <<program, vb_calls>>

\* RHI_CommandList::Blit(RHI_Texture*, RHI_SwapChain*): the source's ClearBlit
\* flag, then its size against the destination's.  No state check, no native call.
Blit(flag, sw, sh, dw, dh) ==
    /\ Invoke(CallTexture("Blit", flag, sw, sh, dw, dh))
    /\ IF ~flag THEN Abort(FatalPrecondition)
       ELSE IF ~(sw <= dw /\ sh <= dh) THEN Abort(FatalPrecondition)
       ELSE Return /\ UNCHANGED <<program, vb_calls>>

\* Copy that accepts a source no larger than the destination, as Blit does.
Copy_NotLarger(flag, sw, sh, dw, dh) ==
    /\ Invoke(CallTexture("Copy", flag, sw, sh, dw, dh))
    /\ IF ~flag THEN Abort(FatalPrecondition)
       ELSE IF ~(sw <= dw /\ sh <= dh) THEN Abort(FatalPrecondition)
       ELSE Return /\ UNCHANGED <<program, vb_calls>>

\* RHI_CommandList::Copy(RHI_Texture*, RHI_SwapChain*)
Copy(flag, sw, sh, dw, dh) ==
    /\ Invoke(CallTexture("Copy", flag, sw, sh, dw, dh))
    /\ IF ~flag THEN Abort(FatalPrecondition)
       ELSE IF sw # dw THEN Abort(FatalPrecondition)
       ELSE IF sh # dh THEN Abort(FatalPrecondition)
       ELSE Return /\ UNCHANGED <<program, vb_calls>>

\* ------------------------------------------------- viewport and scissor

\* RHI_CommandList::SetViewport
SetViewport ==
    /\ Invoke(WithSteps(Call("SetViewport"),
                        IF m_state = "Recording" THEN <<"RSSetViewports">> ELSE <<>>))
    /\ IF m_state # "Recording" THEN Abort(FatalState)
       ELSE
           /\ Return
           /\ d3d12' = Issue(d3d12, "RSSetViewports")
           /\ UNCHANGED <<m_state, m_rhi_resource, m_vertex_buffer_id, m_index_buffer_id,
                          profiler, vb_calls>>

\* SetScissorRectangle without its state assertion.
SetScissorRectangle_NoStateAssert ==
    /\ Invoke(Call("SetScissorRectangle"))
    /\ Return
    /\ d3d12' = Issue(d3d12, "RSSetScissorRects")
    /\ UNCHANGED <<m_state, m_rhi_resource, m_vertex_buffer_id, m_index_buffer_id,
                   profiler, vb_calls>>

\* RHI_CommandList::SetScissorRectangle
SetScissorRectangle ==
    /\ Invoke(WithSteps(Call("SetScissorRectangle"),
                        IF m_state = "Recording" THEN <<"RSSetScissorRects">> ELSE <<>>))
    /\ IF m_state # "Recording" THEN Abort(FatalState)
       ELSE
           /\ Return
           /\ d3d12' = Issue(d3d12, "RSSetScissorRects")
           /\ UNCHANGED <<m_state, m_rhi_resource, m_vertex_buffer_id, m_index_buffer_id,
                          profiler, vb_calls>>

\* ------------------------------------------------------ buffer binding

\* SetBufferVertex without the "skip if already set" return.
SetBufferVertex_NoSkip(b) ==
    /\ Invoke(CallBuffer("SetBufferVertex", b))
    /\ IF m_state # "Recording" THEN Abort(FatalState)
       ELSE
           /\ Return
           /\ d3d12' = Issue(d3d12, "IASetVertexBuffers")
           /\ m_vertex_buffer_id' = b
           /\ profiler' = Count(profiler, "m_rhi_bindings_buffer_vertex")
           /\ vb_calls' = Append(vb_calls, b)
           /\ UNCHANGED <<m_state, m_rhi_resource, m_index_buffer_id>>

\* RHI_CommandList::SetBufferVertex; b is buffer->GetObjectId().
SetBufferVertex(b) ==
    /\ Invoke(WithSteps(CallBuffer("SetBufferVertex", b),
                        IF m_state = "Recording" /\ m_vertex_buffer_id # b
                            THEN <<"IASetVertexBuffers", "m_rhi_bindings_buffer_vertex">>
                            ELSE <<>>))
    /\ IF m_state # "Recording" THEN Abort(FatalState)
       ELSE IF m_vertex_buffer_id = b THEN
           /\ Return
           /\ vb_calls' = Append(vb_calls, b)
           /\ UNCHANGED program
       ELSE
           /\ Return
           /\ d3d12' = Issue(d3d12, "IASetVertexBuffers")
           /\ m_vertex_buffer_id' = b
           /\ profiler' = Count(profiler, "m_rhi_bindings_buffer_vertex")
           /\ vb_calls' = Append(vb_calls, b)
           /\ UNCHANGED <<m_state, m_rhi_resource, m_index_buffer_id>>

\* SetBufferIndex that compares with and stores into the vertex buffer's cache.
SetBufferIndex_VertexCache(b) ==
    /\ Invoke(CallBuffer("SetBufferIndex", b))
    /\ IF m_state # "Recording" THEN Abort(FatalState)
       ELSE IF m_vertex_buffer_id = b THEN
           /\ Return
           /\ UNCHANGED <<program, vb_calls>>
       ELSE
           /\ Return
           /\ d3d12' = Issue(d3d12, "IASetIndexBuffer")
           /\ m_vertex_buffer_id' = b
           /\ profiler' = Count(profiler, "m_rhi_bindings_buffer_index")
           /\ UNCHANGED <<m_state, m_rhi_resource, m_index_buffer_id, vb_calls>>

\* RHI_CommandList::SetBufferIndex; b is buffer->GetObjectId().
SetBufferIndex(b) ==
    /\ Invoke(WithSteps(CallBuffer("SetBufferIndex", b),
                        IF m_state = "Recording" /\ m_index_buffer_id # b
                            THEN <<"IASetIndexBuffer", "m_rhi_bindings_buffer_index">>
                            ELSE <<>>))
    /\ IF m_state # "Recording" THEN Abort(FatalState)
       ELSE IF m_index_buffer_id = b THEN
           /\ Return
           /\ UNCHANGED <<program, vb_calls>>
       ELSE
           /\ Return
           /\ d3d12' = Issue(d3d12, "IASetIndexBuffer")
           /\ m_index_buffer_id' = b
           /\ profiler' = Count(profiler, "m_rhi_bindings_buffer_index")
           /\ UNCHANGED <<m_state, m_rhi_resource, m_vertex_buffer_id, vb_calls>>

\* ------------------------------------------------------ memory barriers

\* The three image barrier methods: empty bodies.
BarrierOps ==
    {"InsertMemoryBarrierImage(void*)", "InsertMemoryBarrierImage(RHI_Texture*)",
     "InsertMemoryBarrierImageWaitForWrite"}

\* RHI_CommandList::InsertMemoryBarrierImage (both overloads) and
\* RHI_CommandList::InsertMemoryBarrierImageWaitForWrite
InsertMemoryBarrierImage(op) ==
    /\ Invoke(Call(op))
    /\ Return
    /\ UNCHANGED <<program, vb_calls>>

\* --------------------------------------------------- unimplemented methods

\* The methods whose whole body is SP_ASSERT_MSG(false, "Function is not implemented")
\* (BeginTimestamp has a return 0 after it).
StubOps ==
    {"BeginRenderPass", "EndRenderPass", "ClearPipelineStateRenderTargets",
     "ClearRenderTarget", "Blit(RHI_Texture*, RHI_Texture*)",
     "Copy(RHI_Texture*, RHI_Texture*)", "SetConstantBuffer", "PushConstants",
     "SetStructuredBuffer", "SetSampler", "SetTexture", "BeginTimestamp",
     "EndTimestamp", "BeginTimeblock", "EndTimeblock", "BeginMarker", "EndMarker"}

\* Any method of StubOps.
NotImplemented(op) ==
    /\ Invoke(Call(op))
    /\ Abort(FatalNotImplemented)

\* RHI_CommandList::SetPipelineState; valid: pso.IsValid().
SetPipelineState(valid) ==
    /\ Invoke(Call("SetPipelineState"))
    /\ IF ~valid THEN Abort(FatalPrecondition)
       ELSE IF m_state # "Recording" THEN Abort(FatalState)
       ELSE Abort(FatalNotImplemented)

\* RHI_CommandList::GetTimestampDuration: return 0.0f.
GetTimestampDuration ==
    /\ Invoke(Call("GetTimestampDuration"))
    /\ Return
    /\ UNCHANGED <<program, vb_calls>>

\* ------------------------------------------------------------ destruction

\* The destructor with the release ahead of the wait.
Destroy_ReleaseFirst ==
    /\ Invoke(WithSteps(Call("~RHI_CommandList"), <<"release", "QueueWaitAll">>))
    /\ Return
    /\ m_rhi_resource' = "null"
    /\ UNCHANGED <<m_state, m_vertex_buffer_id, m_index_buffer_id, profiler, d3d12, vb_calls>>

\* RHI_CommandList::~RHI_CommandList: RHI_Device::QueueWaitAll(), which returns
\* once every queue has drained, then the release of the native command list.
\* No method is called on the list after it.
Destroy ==
    /\ Invoke(WithSteps(Call("~RHI_CommandList"), <<"QueueWaitAll", "release">>))
    /\ Return
    /\ m_rhi_resource' = "null"
    /\ UNCHANGED <<m_state, m_vertex_buffer_id, m_index_buffer_id, profiler, d3d12, vb_calls>>

\* ------------------------------------------------- pipeline construction

\* RHI_PipelineState::IsGraphics: the graphics shader set is populated.
IsGraphics(ps) == ps.shader_vertex.present \/ ps.shader_pixel.present

\* RHI_PipelineState::IsCompute: the compute shader is populated.
IsCompute(ps) == ps.shader_compute.present

\* The layouts array with the two sampler layouts exchanged.
LayoutOrder_SamplersSwapped ==
    <<"descriptor_set_layout", "sampler_regular", "sampler_comparison">>

\* The names of the entries of the layouts array, in its order.
LayoutOrder == <<"descriptor_set_layout", "sampler_comparison", "sampler_regular">>

\* for (void* layout : layouts) SP_ASSERT(layout != nullptr)
LayoutsValid(lay) == \A i \in 1 .. 3 : lay[i]

\* The VkShaderStageFlagBits the constructor uses for a stage.
StageBit(stage) ==
    CASE stage = "vertex" -> "VK_SHADER_STAGE_VERTEX_BIT"
      [] stage = "pixel" -> "VK_SHADER_STAGE_FRAGMENT_BIT"
      [] stage = "compute" -> "VK_SHADER_STAGE_COMPUTE_BIT"

\* The size assertion made on the first descriptor only.
PushConstantSizesValid_FirstOnly(descs) ==
    descs # <<>> /\ descs[1].type = "PushConstantBuffer"
        => descs[1].struct_size <= MaxPushConstantSize

\* SP_ASSERT(descriptor.struct_size <= PropertyGetMaxPushConstantSize()), for
\* every descriptor of type PushConstantBuffer.
PushConstantSizesValid(descs) ==
    \A i \in 1 .. Len(descs) :
        descs[i].type = "PushConstantBuffer" => descs[i].struct_size <= MaxPushConstantSize

\* The VkPushConstantRange without the compute bit.
PushConstantRange_NoCompute(d) ==
    [offset |-> 0, size |-> d.struct_size,
     stageFlags |-> {StageBit(st) : st \in d.stage \cap {"vertex", "pixel"}}]

\* The VkPushConstantRange built from a push constant descriptor.
PushConstantRange(d) ==
    [offset |-> 0, size |-> d.struct_size,
     stageFlags |-> {StageBit(st) : st \in d.stage \cap Stages}]

\* push_constant_ranges: one range per push constant descriptor, in order.
RECURSIVE PushConstantRanges(_)
PushConstantRanges(descs) ==
    IF descs = <<>> THEN <<>>
    ELSE IF Head(descs).type = "PushConstantBuffer"
         THEN <<PushConstantRange(Head(descs))>> \o PushConstantRanges(Tail(descs))
         ELSE PushConstantRanges(Tail(descs))

\* VkPipelineLayoutCreateInfo; the layout created from it gets a debug name.
PipelineLayoutInfo(descs) ==
    [kind |-> "layout",
     set_layouts |-> LayoutOrder,
     push_constant_ranges |-> PushConstantRanges(descs),
     named |-> TRUE]

\* The VkPipelineShaderStageCreateInfo of one shader.
ShaderStageInfo(stage, shader) ==
    [stage |-> StageBit(stage), module |-> shader.module, pName |-> shader.entry]

\* shader_stages without the pixel shader's stage.
ShaderStages_NoPixel(ps) ==
    (IF ps.shader_vertex.present
        THEN <<ShaderStageInfo("vertex", ps.shader_vertex)>> ELSE <<>>)
    \o (IF ps.shader_compute.present
        THEN <<ShaderStageInfo("compute", ps.shader_compute)>> ELSE <<>>)

\* shader_stages before validation: vertex, pixel, compute, each if present.
ShaderStages(ps) ==
    (IF ps.shader_vertex.present
        THEN <<ShaderStageInfo("vertex", ps.shader_vertex)>> ELSE <<>>)
    \o (IF ps.shader_pixel.present
        THEN <<ShaderStageInfo("pixel", ps.shader_pixel)>> ELSE <<>>)
    \o (IF ps.shader_compute.present
        THEN <<ShaderStageInfo("compute", ps.shader_compute)>> ELSE <<>>)

\* Stage validation that looks at the module only.
StageValid_ModuleOnly(info) == info.module

\* SP_ASSERT(shader_stage_info.module != nullptr);
\* SP_ASSERT(shader_stage_info.pName != nullptr);
StageValid(info) == info.module /\ info.pName

StagesValid(ps) ==
    \A i \in 1 .. Len(ShaderStages(ps)) : StageValid(ShaderStages(ps)[i])

\* dynamic_states with the scissor dynamic whatever the flag.
DynamicStates_ScissorAlways(ps) ==
    <<"VK_DYNAMIC_STATE_VIEWPORT", "VK_DYNAMIC_STATE_SCISSOR">>

\* dynamic_states: the viewport always, the scissor if m_state.dynamic_scissor.
DynamicStates(ps) ==
    <<"VK_DYNAMIC_STATE_VIEWPORT">>
    \o (IF ps.dynamic_scissor THEN <<"VK_DYNAMIC_STATE_SCISSOR">> ELSE <<>>)

\* Binary digits of n.
RECURSIVE BitLength(_)
BitLength(n) == IF n = 0 THEN 0 ELSE 1 + BitLength(n \div 2)

\* static_cast<float>(n) of an unsigned integer: n itself while it has at most
\* FloatMantissaBits digits, otherwise the nearest multiple of the unit in the
\* last place, ties to the even one.  The float is written as the integer it
\* equals.
ToFloat(n) ==
    IF BitLength(n) <= FloatMantissaBits THEN n
    ELSE LET unit == 2^(BitLength(n) - FloatMantissaBits)
             q == n \div unit
             r == n % unit
             up == 2 * r > unit \/ (2 * r = unit /\ q % 2 = 1)
         IN  (IF up THEN q + 1 ELSE q) * unit

\* static_cast<uint32_t>(f) of a float that is a non-negative whole number
\* within the range of uint32_t: the fraction, which is zero, is dropped.
FloatToUint32(f) == f - (f % 1)

\* vkViewport
Viewport(ps) ==
    [x |-> 0, y |-> 0,
     width |-> ToFloat(ps.width), height |-> ToFloat(ps.height),
     minDepth |-> 0, maxDepth |-> 1]

\* scissor: the extent is the float width and height of vkViewport cast back.
Scissor(ps) ==
    [offset |-> [x |-> 0, y |-> 0],
     extent |-> [width |-> FloatToUint32(Viewport(ps).width),
                 height |-> FloatToUint32(Viewport(ps).height)]]

\* viewport_state
ViewportState(ps) ==
    [viewportCount |-> 1, pViewports |-> <<Viewport(ps)>>,
     scissorCount |-> 1, pScissors |-> <<Scissor(ps)>>]

Abs(n) == IF n < 0 THEN -n ELSE n

\* m * 2^e with m made odd.
RECURSIVE Normalise(_)
Normalise(x) ==
    IF x.inf THEN x
    ELSE IF x.m = 0 THEN FloatZero
    ELSE IF x.m % 2 = 0 THEN Normalise([x EXCEPT !.m = x.m \div 2, !.e = x.e + 1])
    ELSE x

\* The finite floats with the given mantissas and exponents.
Floats(mantissas, exponents) ==
    {FloatZero} \cup
    {x \in [m : mantissas \ {0}, e : exponents, inf : {FALSE}] :
        /\ x.m % 2 = 1
        /\ BitLength(Abs(x.m)) <= FloatMantissaBits
        /\ x.e >= FloatMinExponent
        /\ BitLength(Abs(x.m)) + x.e <= FloatMaxExponent}

\* x * 2^k as a real number, k >= 0.
Scale(x, k) == IF x.inf \/ x.m = 0 THEN x ELSE [x EXCEPT !.e = x.e + k]

\* x * (float)(1 << k) in float arithmetic: exact, or an infinity when the
\* product is too large for a float.
FloatMultiply(x, k) ==
    IF x.inf \/ x.m = 0 THEN x
    ELSE IF BitLength(Abs(x.m)) + x.e + k > FloatMaxExponent
         THEN [m |-> IF x.m < 0 THEN -1 ELSE 1, e |-> 0, inf |-> TRUE]
         ELSE [x EXCEPT !.e = x.e + k]

\* Rounding toward zero.
Truncate(x) ==
    IF x.inf \/ x.e >= 0 THEN x
    ELSE IF -x.e >= BitLength(Abs(x.m)) THEN FloatZero
    ELSE Normalise([x EXCEPT !.m = IF x.m < 0 THEN -(Abs(x.m) \div 2^(-x.e))
                                              ELSE x.m \div 2^(-x.e),
                             !.e = 0])

\* Math::Helper::Floor: the largest integer not above x.
Floor(x) ==
    IF x.inf \/ x.e >= 0 THEN x
    ELSE IF -x.e >= BitLength(Abs(x.m))
         THEN [FloatZero EXCEPT !.m = IF x.m < 0 THEN -1 ELSE 0]
    ELSE Normalise([x EXCEPT !.m = x.m \div 2^(-x.e), !.e = 0])

\* rasterizer_state with the scaled depth bias rounded toward zero.
RasterizerState_Truncating(ps) ==
    IF ps.rasterizer_state.present
    THEN [depthBiasEnable |-> ps.rasterizer_state.depth_bias # FloatZero,
          depthBiasConstantFactor |->
              Truncate(FloatMultiply(ps.rasterizer_state.depth_bias, DepthBiasShift))]
    ELSE [depthBiasEnable |-> FALSE, depthBiasConstantFactor |-> FloatZero]

\* rasterizer_state: filled from the rasterizer state when there is one, zero
\* initialised otherwise.
RasterizerState(ps) ==
    IF ps.rasterizer_state.present
    THEN [depthBiasEnable |-> ps.rasterizer_state.depth_bias # FloatZero,
          depthBiasConstantFactor |->
              Floor(FloatMultiply(ps.rasterizer_state.depth_bias, DepthBiasShift))]
    ELSE [depthBiasEnable |-> FALSE, depthBiasConstantFactor |-> FloatZero]

\* depth_stencil_state: the depth bounds are set when there is a depth-stencil
\* state, zero initialised otherwise.
DepthStencilState(ps) ==
    IF ps.depth_stencil_state
    THEN [minDepthBounds |-> 1, maxDepthBounds |-> 0]
    ELSE [minDepthBounds |-> 0, maxDepthBounds |-> 0]

\* The formats a depth texture can have.
DepthFormats == {"D16_Unorm", "D32_Float", "D32_Float_S8X24_Uint"}

\* vulkan_format[rhi_format_to_index(format)]
VulkanFormat(format) ==
    CASE format = "D16_Unorm" -> "VK_FORMAT_D16_UNORM"
      [] format = "D32_Float" -> "VK_FORMAT_D32_SFLOAT"
      [] format = "D32_Float_S8X24_Uint" -> "VK_FORMAT_D32_SFLOAT_S8_UINT"
      [] OTHER -> "VK_FORMAT_UNDEFINED"

\* RHI_Texture::IsStencilFormat()
IsStencilFormat(texture) == texture.format = "D32_Float_S8X24_Uint"

\* attachment_format_depth
AttachmentFormatDepth(ps) ==
    IF ps.render_target_depth_texture.present
    THEN VulkanFormat(ps.render_target_depth_texture.format)
    ELSE "VK_FORMAT_UNDEFINED"

\* attachment_format_stencil copied from the depth format whatever the format.
AttachmentFormatStencil_Always(ps) == AttachmentFormatDepth(ps)

\* attachment_format_stencil
AttachmentFormatStencil(ps) ==
    IF ps.render_target_depth_texture.present
       /\ IsStencilFormat(ps.render_target_depth_texture)
    THEN AttachmentFormatDepth(ps)
    ELSE "VK_FORMAT_UNDEFINED"

\* The vertex input is described: there is a vertex shader and the draw is not
\* a full screen triangle.
HasVertexInput(ps) == ps.shader_vertex.present /\ ~ps.is_fullscreen_triangle

\* GetVertexSize(): the attributes of the input layout are float4.
VertexSize(shader) == Len(shader.locations) * SizeofVector4

\* vertex_input_binding_descs with the instance binding whatever the flag.
VertexInputBindings_InstanceAlways(ps) ==
    IF HasVertexInput(ps)
    THEN <<[binding |-> 0, stride |-> VertexSize(ps.shader_vertex),
            inputRate |-> "VK_VERTEX_INPUT_RATE_VERTEX"],
           [binding |-> 1, stride |-> SizeofMatrix,
            inputRate |-> "VK_VERTEX_INPUT_RATE_INSTANCE"]>>
    ELSE <<>>

\* vertex_input_binding_descs
VertexInputBindings(ps) ==
    IF HasVertexInput(ps)
    THEN <<[binding |-> 0, stride |-> VertexSize(ps.shader_vertex),
            inputRate |-> "VK_VERTEX_INPUT_RATE_VERTEX"]>>
         \o (IF ps.instancing
             THEN <<[binding |-> 1, stride |-> SizeofMatrix,
                     inputRate |-> "VK_VERTEX_INPUT_RATE_INSTANCE"]>>
             ELSE <<>>)
    ELSE <<>>

\* The attribute descriptions of the vertex shader's input layout, each with
\* its own location, binding 0 and its offset.
ReflectedAttributes(shader) ==
    IF shader.input_layout
    THEN [i \in 1 .. Len(shader.locations) |->
            [location |-> shader.locations[i], binding |-> 0,
             format |-> "VK_FORMAT_R32G32B32A32_SFLOAT",
             offset |-> (i - 1) * SizeofVector4]]
    ELSE <<>>

\* The four attributes of the instance matrix, pushed when the list already
\* has n entries: the location of each is the size of the list when it is pushed.
InstanceAttributes(n) ==
    [i \in 1 .. 4 |->
        [location |-> n + (i - 1), binding |-> 1,
         format |-> "VK_FORMAT_R32G32B32A32_SFLOAT",
         offset |-> (i - 1) * SizeofVector4]]

\* vertex_attribute_descs
VertexAttributes(ps) ==
    IF HasVertexInput(ps)
    THEN ReflectedAttributes(ps.shader_vertex)
         \o (IF ps.instancing
             THEN InstanceAttributes(Len(ReflectedAttributes(ps.shader_vertex)))
             ELSE <<>>)
    ELSE <<>>

\* vertex_input_state
VertexInputState(ps) ==
    [bindings |-> VertexInputBindings(ps), attributes |-> VertexAttributes(ps)]

\* blend_state_attachments.size(): nothing without a blend state; otherwise
\* one for the swap chain if set, and one for every colour texture that is set.
BlendAttachmentCount(ps) ==
    IF ~ps.blend_state THEN 0
    ELSE (IF ps.render_target_swapchain THEN 1 ELSE 0)
         + Cardinality({i \in 1 .. rhi_max_render_target_count :
                            ps.render_target_color_textures[i]})

\* attachment_formats_color.size(): one for the swap chain if set; otherwise
\* one for every colour texture up to the first slot that is null.
ColorAttachmentCount(ps) ==
    IF ps.render_target_swapchain THEN 1
    ELSE Cardinality({i \in 1 .. rhi_max_render_target_count :
                          \A j \in 1 .. i : ps.render_target_color_textures[j]})

\* VkGraphicsPipelineCreateInfo; the pipeline gets no debug name.
GraphicsPipelineInfo(ps) ==
    [kind |-> "graphics",
     stages |-> ShaderStages(ps),
     dynamic_states |-> DynamicStates(ps),
     viewport_state |-> ViewportState(ps),
     vertex_input_state |-> VertexInputState(ps),
     rasterizer_state |-> RasterizerState(ps),
     depth_stencil_state |-> DepthStencilState(ps),
     depthAttachmentFormat |-> AttachmentFormatDepth(ps),
     stencilAttachmentFormat |-> AttachmentFormatStencil(ps),
     attachmentCount |-> BlendAttachmentCount(ps),
     colorAttachmentCount |-> ColorAttachmentCount(ps),
     named |-> FALSE]

\* VkComputePipelineCreateInfo: stage = shader_stages[0]; the pipeline is named.
ComputePipelineInfo(ps) ==
    [kind |-> "compute",
     stages |-> <<ShaderStages(ps)[1]>>,
     named |-> TRUE]

\* What the constructor leaves behind: the assertion that ended it (or NoFatal),
\* the create info and the handle of the layout and of the pipeline, and
\* whether it returned.
Outcome(why, layout_info, layout, info, handle) ==
    [fatal |-> why, layout_info |-> layout_info, layout |-> layout,
     info |-> info, pipeline |-> handle, returned |-> why = NoFatal]

\* The body of the constructor, statement by statement.
Construct(ps, lay, descs, vk_fail) ==
    LET layout_info == PipelineLayoutInfo(descs) IN
    IF ~LayoutsValid(lay)
        THEN Outcome(FatalNull, NoCreateInfo, Null, NoCreateInfo, Null)
    ELSE IF ~PushConstantSizesValid(descs)
        THEN Outcome(FatalPushConstantSize, NoCreateInfo, Null, NoCreateInfo, Null)
    ELSE IF vk_fail = "vkCreatePipelineLayout"
        THEN Outcome(FatalBackend, layout_info, Null, NoCreateInfo, Null)
    ELSE IF ~StagesValid(ps)
        THEN Outcome(FatalNull, layout_info, "layout", NoCreateInfo, Null)
    ELSE IF IsGraphics(ps)
        THEN IF vk_fail = "vkCreatePipeline"
                THEN Outcome(FatalBackend, layout_info, "layout", GraphicsPipelineInfo(ps), Null)
                ELSE Outcome(NoFatal, layout_info, "layout", GraphicsPipelineInfo(ps), "graphics")
    ELSE IF IsCompute(ps)
        THEN IF vk_fail = "vkCreatePipeline"
                THEN Outcome(FatalBackend, layout_info, "layout", ComputePipelineInfo(ps), Null)
                ELSE Outcome(NoFatal, layout_info, "layout", ComputePipelineInfo(ps), "compute")
    ELSE Outcome(NoFatal, layout_info, "layout", NoCreateInfo, Null)

\* The process runs and the constructor of the pipeline object has not run.
Unconstructed == fatal = NoFatal /\ ~constructed

\* RHI_Pipeline::RHI_Pipeline(pipeline_state, descriptor_set_layout): lay are
\* the handles of the caller's layout and of the device's two sampler layouts,
\* descs the descriptors of the caller's layout, vk_fail the creation call that
\* the driver fails.
RHI_Pipeline(ps, lay, descs, vk_fail) ==
    /\ Unconstructed
    /\ pipeline_state' = ps
    /\ layouts' = lay
    /\ descriptors' = descs
    /\ LET out == Construct(ps, lay, descs, vk_fail) IN
        /\ fatal' = out.fatal
        /\ pipeline_layout_info' = out.layout_info
        /\ m_resource_pipeline_layout' = out.layout
        /\ m_resource_pipeline' = out.pipeline
        /\ pipeline_info' = out.info
        /\ constructed' = out.returned
    /\ UNCHANGED <<commandlist, lifetime, elsewhere>>

\* The entries the destructor adds with the two resource types exchanged.
DestructorEntries_TypesSwapped(pipeline_handle, layout_handle) ==
    <<[type |-> "PipelineLayout", resource |-> pipeline_handle],
      [type |-> "Pipeline", resource |-> layout_handle]>>

\* The entries the destructor adds to the deletion queue, in its order:
\* DeletionQueueAdd(Pipeline, m_resource_pipeline), then
\* DeletionQueueAdd(PipelineLayout, m_resource_pipeline_layout).
DestructorEntries(pipeline_handle, layout_handle) ==
    <<[type |-> "Pipeline", resource |-> pipeline_handle],
      [type |-> "PipelineLayout", resource |-> layout_handle]>>

\* RHI_Pipeline::~RHI_Pipeline, of an object whose constructor returned: both
\* handles are queued for deletion and the fields are set to nullptr.
DestroyPipeline ==
    /\ fatal = NoFatal
    /\ constructed
    /\ ~destroyed
    /\ destroyed' = TRUE
    /\ deletion_queue' =
           deletion_queue \o DestructorEntries(m_resource_pipeline, m_resource_pipeline_layout)
    /\ m_resource_pipeline' = Null
    /\ m_resource_pipeline_layout' = Null
    /\ UNCHANGED <<commandlist, fatal, pipeline_state, layouts, descriptors,
                   pipeline_layout_info, pipeline_info, constructed, released, elsewhere>>

\* RHI_Device drains the deletion queue, the device being idle: every queued
\* resource is destroyed and the queue is empty afterwards.
DeletionQueueParse ==
    /\ fatal = NoFatal
    /\ deletion_queue # <<>>
    /\ released' = released \cup {deletion_queue[i] : i \in 1 .. Len(deletion_queue)}
    /\ deletion_queue' = <<>>
    /\ UNCHANGED <<commandlist, fatal, pipeline_state, layouts, descriptors,
                   pipeline_layout_info, pipeline_info, constructed, destroyed,
                   m_resource_pipeline, m_resource_pipeline_layout, elsewhere>>

\* ------------------------------------- command lists on several threads

\* What a step of a recording thread leaves alone: the one command list of the
\* single-threaded system and the pipeline object.
apart_from_threads ==
    <<m_state, m_rhi_resource, m_vertex_buffer_id, m_index_buffer_id, d3d12,
      call, ncalls, lifecycle, vb_calls, pipeline, shader_reload, in_use,
      camera_component>>

\* SetBufferVertex / SetBufferIndex on the list of thread t, up to the read of
\* the profiler counter: the state check (the list is recording), the skip when
\* the buffer is the cached one, the native call, the cached id, and the load
\* of the counter that ++ makes.  The store is the thread's next step.
ThreadBind(t, id_field, native, b) ==
    /\ fatal = NoFatal
    /\ lists[t].pc = "recording"
    /\ lists[t].calls < MaxThreadCalls
    /\ IF lists[t][id_field] = b
       THEN lists' = [lists EXCEPT ![t].calls = @ + 1]
       ELSE lists' = [lists EXCEPT
                ![t].calls = @ + 1, ![t][native] = @ + 1, ![t][id_field] = b,
                ![t].loaded = profiler[IF native = "IASetVertexBuffers"
                                       THEN "m_rhi_bindings_buffer_vertex"
                                       ELSE "m_rhi_bindings_buffer_index"],
                ![t].pc = native]
    /\ UNCHANGED <<profiler, fatal, apart_from_threads>>

\* RHI_CommandList::SetBufferVertex(buffer) on thread t.
ThreadSetBufferVertex(t, b) ==
    ThreadBind(t, "m_vertex_buffer_id", "IASetVertexBuffers", b)

\* RHI_CommandList::SetBufferIndex(buffer) on thread t.
ThreadSetBufferIndex(t, b) ==
    ThreadBind(t, "m_index_buffer_id", "IASetIndexBuffer", b)

\* The store of Profiler::m_rhi_bindings_buffer_vertex++ or
\* Profiler::m_rhi_bindings_buffer_index++: the value loaded, plus one.
ThreadStoreCounter(t) ==
    /\ fatal = NoFatal
    /\ lists[t].pc \in {"IASetVertexBuffers", "IASetIndexBuffer"}
    /\ profiler' = [profiler EXCEPT
           ![IF lists[t].pc = "IASetVertexBuffers"
             THEN "m_rhi_bindings_buffer_vertex"
             ELSE "m_rhi_bindings_buffer_index"] = lists[t].loaded + 1]
    /\ lists' = [lists EXCEPT ![t].pc = "recording"]
    /\ UNCHANGED <<fatal, apart_from_threads>>

\* RHI_CommandList::Begin on thread t's list.
ThreadBegin(t) ==
    /\ fatal = NoFatal
    /\ lists[t].pc = "start"
    /\ lists' = [lists EXCEPT ![t].pc = "recording"]
    /\ UNCHANGED <<profiler, fatal, apart_from_threads>>

\* RHI_CommandList::End on thread t's list: the thread has finished.
ThreadEnd(t) ==
    /\ fatal = NoFatal
    /\ lists[t].pc = "recording"
    /\ lists' = [lists EXCEPT ![t].pc = "ended"]
    /\ UNCHANGED <<profiler, fatal, apart_from_threads>>

\* Draw, DrawIndexed or Dispatch on thread t's list: OnDraw asserts.
ThreadDraw(t) ==
    /\ fatal = NoFatal
    /\ lists[t].pc = "recording"
    /\ fatal' = FatalNotImplemented
    /\ UNCHANGED <<profiler, lists, apart_from_threads>>

NextThreads ==
    \E t \in Threads :
        \/ ThreadBegin(t)
        \/ \E b \in Buffers : ThreadSetBufferVertex(t, b)
        \/ \E b \in Buffers : ThreadSetBufferIndex(t, b)
        \/ ThreadStoreCounter(t)
        \/ ThreadDraw(t)
        \/ ThreadEnd(t)

SpecThreads == Init /\ [][NextThreads]_vars

\* ---------------------------------------------------- shader reload task

\* What a step of the reload task or of a file leaves alone.
apart_from_reload ==
    <<commandlist, fatal, pipeline, lists, camera_component>>

\* The slot the for loop visits after slot s; the while (true) loop starts the
\* next pass after the last slot.
NextSlot(s) == IF s = number_shaders THEN 1 ELSE s + 1

\* The test of the loop with >= in place of >.
Outdated_OrEqual(d, oldTime) == d >= oldTime

\* if (d > oldTime)
Outdated(d, oldTime) == d > oldTime

\* RunShaderReloadThread, from the start of the task to the while loop: the
\* renderer's array holds the shaders nonnull, whose files exist or not; the
\* task records the last-write time of the file of every non-null shader.
\* last_write_time of a missing file throws, and the task ends there.
RunShaderReloadThread(nonnull, exists) ==
    /\ fatal = NoFatal
    /\ reloader.pc = "unstarted"
    /\ shaders' = nonnull
    /\ files' = [s \in ShaderSlots |-> [exists |-> exists[s], time |-> 1]]
    /\ IF \E s \in ShaderSlots : nonnull[s] /\ ~exists[s]
       THEN /\ reloader' = [reloader EXCEPT !.pc = "thrown"]
            /\ UNCHANGED map
       ELSE /\ reloader' = [reloader EXCEPT !.pc = "loop"]
            /\ map' = [s \in ShaderSlots |-> IF nonnull[s] THEN 1 ELSE 0]
    /\ UNCHANGED <<compiles, writes, in_use, apart_from_reload>>

\* One iteration of the for loop, up to the call of Compile: a null shader and
\* a shader whose file is missing are skipped; otherwise the last-write time is
\* read and compared with the recorded one, and Compile is called if greater.
ReloadVisit ==
    /\ fatal = NoFatal
    /\ reloader.pc = "loop"
    /\ LET s == reloader.index IN
       IF shaders[s] /\ files[s].exists /\ Outdated(files[s].time, map[s])
       THEN reloader' = [reloader EXCEPT !.pc = "Compile", !.d = files[s].time]
       ELSE reloader' = [reloader EXCEPT !.index = NextSlot(s)]
    /\ UNCHANGED <<shaders, files, map, compiles, writes, in_use, apart_from_reload>>

\* shader->Compile(...) returns and map[shader] = d; the loop moves on.
ReloadCompiled ==
    /\ fatal = NoFatal
    /\ reloader.pc = "Compile"
    /\ LET s == reloader.index IN
        /\ compiles' = [compiles EXCEPT ![s] = @ + 1]
        /\ map' = [map EXCEPT ![s] = reloader.d]
        /\ reloader' = [reloader EXCEPT !.pc = "loop", !.index = NextSlot(s)]
    /\ UNCHANGED <<shaders, files, writes, in_use, apart_from_reload>>

\* The file of shader s is modified: its last-write time becomes a later one.
ModifyFile(s, time) ==
    /\ fatal = NoFatal
    /\ reloader.pc \in {"loop", "Compile"}
    /\ files[s].exists
    /\ time > files[s].time
    /\ files' = [files EXCEPT ![s].time = time]
    /\ writes' = [writes EXCEPT ![s] = @ + 1]
    /\ UNCHANGED <<shaders, map, compiles, reloader, in_use, apart_from_reload>>

\* The file of shader s is deleted.
DeleteFile(s) ==
    /\ fatal = NoFatal
    /\ reloader.pc \in {"loop", "Compile"}
    /\ files[s].exists
    /\ files' = [files EXCEPT ![s].exists = FALSE]
    /\ UNCHANGED <<shaders, map, compiles, writes, reloader, in_use, apart_from_reload>>

\* Another thread (the renderer, the shader editor) starts to use shader s.
UseShader(s) ==
    /\ fatal = NoFatal
    /\ reloader.pc \in {"loop", "Compile"}
    /\ shaders[s]
    /\ s \notin in_use
    /\ in_use' = in_use \cup {s}
    /\ UNCHANGED <<shader_reload, apart_from_reload>>

\* The other thread is done with shader s.
ReleaseShader(s) ==
    /\ fatal = NoFatal
    /\ s \in in_use
    /\ in_use' = in_use \ {s}
    /\ UNCHANGED <<shader_reload, apart_from_reload>>

\* The reload task and the files it watches.
NextReloader ==
    \/ \E nonnull \in [ShaderSlots -> BOOLEAN], exists \in [ShaderSlots -> BOOLEAN] :
           RunShaderReloadThread(nonnull, exists)
    \/ ReloadVisit
    \/ ReloadCompiled
    \/ \E s \in ShaderSlots, time \in 1 .. MaxWriteTime : ModifyFile(s, time)
    \/ \E s \in ShaderSlots : DeleteFile(s)

SpecReloader == Init /\ [][NextReloader]_vars

\* The reload task beside the threads that use the shaders.
NextShaderUsers ==
    \/ NextReloader
    \/ \E s \in ShaderSlots : UseShader(s)
    \/ \E s \in ShaderSlots : ReleaseShader(s)

SpecShaderUsers == Init /\ [][NextShaderUsers]_vars

\* ------------------------------------------------------------- camera

\* What a call on the camera leaves alone.
apart_from_camera ==
    <<commandlist, fatal, pipeline, lists, shader_reload, in_use>>

\* Control that starts on any right-click key-down, inside the viewport or not.
Controlled_AnyKeyDown(key_down, key, mouse_in_viewport, controlled) ==
    key /\ (key_down \/ controlled)

\* m_is_controlled_by_keyboard_mouse after the detection block: set on a
\* right-click key-down with the mouse in the viewport, then kept only while
\* the right click is held.
Controlled(key_down, key, mouse_in_viewport, controlled) ==
    key /\ ((key_down /\ mouse_in_viewport) \/ controlled)

\* The wrap around the left and right screen edges.
WrapAround(position) ==
    CASE position = "edge_right" -> "near_left"
      [] position = "edge_left" -> "near_right"
      [] OTHER -> position

\* Camera::ProcessInputFpsControl, with what Input and Window answer: the
\* right-click key-down and key state, whether the mouse is in the viewport,
\* whether the window is full screen, and the mouse position.
ProcessInputFpsControl(key_down, key, mouse_in_viewport, fullscreen, position) ==
    /\ fatal = NoFatal
    /\ LET controlled == Controlled(key_down, key, mouse_in_viewport,
                                    camera.m_is_controlled_by_keyboard_mouse)
           hide == controlled /\ ~camera.m_fps_control_cursor_hidden
           show == ~controlled /\ camera.m_fps_control_cursor_hidden
       IN
        /\ camera' = [camera EXCEPT
               !.m_is_controlled_by_keyboard_mouse = controlled,
               !.m_fps_control_cursor_hidden =
                   IF hide THEN TRUE ELSE IF show THEN FALSE ELSE @,
               !.m_mouse_last_position = IF hide THEN position ELSE @]
        /\ input_state' =
               [key_down |-> key_down, key |-> key,
                mouse_in_viewport |-> mouse_in_viewport, fullscreen |-> fullscreen,
                mouse_position |->
                    IF show THEN camera.m_mouse_last_position
                    ELSE IF controlled THEN WrapAround(position)
                    ELSE position,
                cursor_visible |->
                    IF hide /\ ~fullscreen THEN FALSE
                    ELSE IF show /\ ~fullscreen THEN TRUE
                    ELSE input_state.cursor_visible]
    /\ UNCHANGED <<pick, apart_from_camera>>

NextFpsControl ==
    \E key_down \in BOOLEAN, key \in BOOLEAN, mouse_in_viewport \in BOOLEAN,
       fullscreen \in BOOLEAN, position \in MousePositions :
        ProcessInputFpsControl(key_down, key, mouse_in_viewport, fullscreen, position)

SpecFpsControl == Init /\ [][NextFpsControl]_vars

\* What Pick sees of one entity: whether it has a Renderable, the distance of
\* the ray to its bounding box, whether GetGeometry gives indices and vertices,
\* and the smallest distance of the ray to one of its triangles (INFINITY_:
\* no hit).  What is not read is left at its default.
EntityViews ==
    {v \in [renderable : BOOLEAN, distance : (0 .. MaxDistance) \cup {INFINITY_},
            geometry : BOOLEAN, triangle : (0 .. MaxDistance) \cup {INFINITY_}] :
        /\ ~v.renderable => v.distance = INFINITY_
        /\ v.distance = INFINITY_ => ~v.geometry
        /\ ~v.geometry => v.triangle = INFINITY_}

\* hits: the entities with a Renderable whose bounding box the ray hits.
Hits(world) ==
    {e \in Entities : world[e].renderable /\ world[e].distance # INFINITY_}

\* The entities the triangle loop can leave selected: one whose geometry is not
\* empty and whose triangle distance is below numeric_limits<float>::max() and
\* the smallest of all hits, and the first such in the order of the sorted
\* hits (hits at the same box distance are in either order).
TriangleCandidates(world) ==
    LET tested == {e \in Hits(world) :
                      world[e].geometry /\ world[e].triangle < FloatMaxDistance}
    IN  {e \in tested :
            \A o \in tested :
                /\ world[e].triangle <= world[o].triangle
                /\ (world[o].triangle = world[e].triangle
                        => world[e].distance <= world[o].distance)}

\* Camera::Pick, with the mouse in the viewport or not and the world as the
\* ray of this call sees it.
Pick(mouse_in_viewport, world) ==
    /\ fatal = NoFatal
    /\ IF ~mouse_in_viewport
       THEN /\ camera' = [camera EXCEPT !.m_selected_entity = NoEntity]
            /\ pick' = [mouse_in_viewport |-> FALSE,
                        distance |-> [e \in Entities |-> INFINITY_]]
       ELSE /\ pick' = [mouse_in_viewport |-> TRUE,
                        distance |-> [e \in Entities |->
                            IF world[e].renderable THEN world[e].distance ELSE INFINITY_]]
            /\ IF Hits(world) = {}
               THEN camera' = [camera EXCEPT !.m_selected_entity = NoEntity]
               ELSE IF Cardinality(Hits(world)) = 1
               THEN camera' = [camera EXCEPT
                        !.m_selected_entity = CHOOSE e \in Hits(world) : TRUE]
               ELSE IF TriangleCandidates(world) = {}
               THEN UNCHANGED camera
               ELSE \E e \in TriangleCandidates(world) :
                        camera' = [camera EXCEPT !.m_selected_entity = e]
    /\ UNCHANGED <<input_state, apart_from_camera>>

NextPick ==
    \E mouse_in_viewport \in BOOLEAN, world \in [Entities -> EntityViews] :
        Pick(mouse_in_viewport, world)

SpecPick == Init /\ [][NextPick]_vars

\* ------------------------------------------------------------ the system

Next ==
    \/ \E reset_ok \in BOOLEAN : Begin(reset_ok)
    \/ \E close_ok \in BOOLEAN : End(close_ok)
    \/ Submit
    \/ Draw
    \/ DrawIndexed
    \/ Dispatch
    \/ \E flag \in BOOLEAN, sw, sh \in Dims :
           Blit(flag, sw, sh, SwapChainWidth, SwapChainHeight)
    \/ \E flag \in BOOLEAN, sw, sh \in Dims :
           Copy(flag, sw, sh, SwapChainWidth, SwapChainHeight)
    \/ SetViewport
    \/ SetScissorRectangle
    \/ \E b \in Buffers : SetBufferVertex(b)
    \/ \E b \in Buffers : SetBufferIndex(b)
    \/ \E op \in BarrierOps : InsertMemoryBarrierImage(op)
    \/ \E op \in StubOps : NotImplemented(op)
    \/ \E valid \in BOOLEAN : SetPipelineState(valid)
    \/ GetTimestampDuration
    \/ Destroy

Spec == Init /\ [][Next]_vars

\* A pipeline state that differs from the default in its shaders, blend state
\* and colour render targets.
PipelineState(vs, px, cs, blend, swapchain, textures) ==
    [DefaultPipelineState EXCEPT
        !.shader_vertex = vs, !.shader_pixel = px, !.shader_compute = cs,
        !.blend_state = blend, !.render_target_swapchain = swapchain,
        !.render_target_color_textures = textures]

\* A graphics state with both shaders valid, as a renderer pass sets it up.
GraphicsPipelineState ==
    [DefaultPipelineState EXCEPT
        !.shader_vertex = ValidShader, !.shader_pixel = ValidShader,
        !.blend_state = TRUE, !.render_target_swapchain = TRUE]

\* A compute state with a valid compute shader.
ComputePipelineState ==
    [DefaultPipelineState EXCEPT !.shader_compute = ValidShader]

\* Pipeline state ps with the given scissor flag and size.
WithViewport(ps, dynamic_scissor, width, height) ==
    [ps EXCEPT !.dynamic_scissor = dynamic_scissor, !.width = width, !.height = height]

\* The graphics state with the given vertex shader (or none) and flags.
WithVertexInput(vs, is_fullscreen_triangle, instancing) ==
    [GraphicsPipelineState EXCEPT
        !.shader_vertex = vs, !.is_fullscreen_triangle = is_fullscreen_triangle,
        !.instancing = instancing]

\* The depth biases a rasterizer state is given: zero, the smallest float,
\* fractions of the depth bias unit, whole numbers, and the largest magnitudes.
DepthBiases ==
    Floats({-3, -1, 1, 3},
           {FloatMinExponent, -DepthBiasShift - 2, -DepthBiasShift - 1,
            -DepthBiasShift, 0, FloatMaxExponent - DepthBiasShift - 2,
            FloatMaxExponent - DepthBiasShift - 1, FloatMaxExponent - 2})

\* The graphics state with the given rasterizer state, depth-stencil state and
\* depth render target.
WithDepth(rasterizer_state, depth_stencil_state, depth_texture) ==
    [GraphicsPipelineState EXCEPT
        !.rasterizer_state = rasterizer_state,
        !.depth_stencil_state = depth_stencil_state,
        !.render_target_depth_texture = depth_texture]

\* The pipeline is constructed from any pipeline state and layout handles, with
\* a layout that has no descriptors; or from the graphics state with any
\* descriptors in its layout; or from the graphics or the compute state with
\* any scissor flag and size; or from the graphics state with any vertex
\* shader input layout, full screen triangle flag and instancing flag; or from
\* the graphics state with any rasterizer state, depth-stencil state and depth
\* render target.
NextPipeline ==
    \/ /\ Unconstructed
       /\ \E vs \in Shaders, px \in Shaders, cs \in Shaders,
             blend \in BOOLEAN, swapchain \in BOOLEAN, textures \in ColorTextures,
             lay \in LayoutHandles, vk_fail \in VkFailures :
              RHI_Pipeline(PipelineState(vs, px, cs, blend, swapchain, textures),
                           lay, <<>>, vk_fail)
    \/ /\ Unconstructed
       /\ \E n \in 1 .. MaxDescriptors, vk_fail \in VkFailures :
              \E descs \in DescriptorLists(n) :
                  RHI_Pipeline(GraphicsPipelineState, ValidLayouts, descs, vk_fail)
    \/ /\ Unconstructed
       /\ \E ps \in {GraphicsPipelineState, ComputePipelineState},
             dynamic_scissor \in BOOLEAN,
             width \in ViewportDimensions, height \in ViewportDimensions,
             vk_fail \in VkFailures :
              RHI_Pipeline(WithViewport(ps, dynamic_scissor, width, height),
                           ValidLayouts, <<>>, vk_fail)
    \/ /\ Unconstructed
       /\ \E has_shader \in BOOLEAN, has_layout \in BOOLEAN,
             S \in SUBSET (0 .. MaxLocation),
             is_fullscreen_triangle \in BOOLEAN, instancing \in BOOLEAN,
             vk_fail \in VkFailures :
              RHI_Pipeline(
                  WithVertexInput(IF has_shader THEN VertexShader(has_layout, S)
                                                ELSE NoShader,
                                  is_fullscreen_triangle, instancing),
                  ValidLayouts, <<>>, vk_fail)
    \/ /\ Unconstructed
       /\ \E rasterizer_state \in
                 {NoRasterizerState} \cup [present : {TRUE}, depth_bias : DepthBiases],
             depth_stencil_state \in BOOLEAN,
             depth_texture \in
                 {NoDepthTexture} \cup [present : {TRUE}, format : DepthFormats],
             vk_fail \in VkFailures :
              RHI_Pipeline(WithDepth(rasterizer_state, depth_stencil_state, depth_texture),
                           ValidLayouts, <<>>, vk_fail)

SpecPipeline == Init /\ [][NextPipeline]_vars

\* A pipeline object is constructed from any shaders for a swapchain target,
\* later destroyed, and the device drains its deletion queue.
NextLifetime ==
    \/ /\ Unconstructed
       /\ \E vs \in Shaders, px \in Shaders, cs \in Shaders, vk_fail \in VkFailures :
              RHI_Pipeline(PipelineState(vs, px, cs, FALSE, TRUE, NoColorTextures),
                           ValidLayouts, <<>>, vk_fail)
    \/ DestroyPipeline
    \/ DeletionQueueParse

SpecLifetime == Init /\ [][NextLifetime]_vars


\* ------------------------------------------------------------ properties

\* This step is an invocation of operation op.
Invoked(op) == ncalls' = ncalls + 1 /\ call'.op = op

\* The list has recorded, been ended, and Submit() was the last lifecycle call:
\* the list that the contract calls submitted.
EndedThenSubmitted ==
    /\ Len(lifecycle) >= 3
    /\ lifecycle[Len(lifecycle)] = "Submit"
    /\ lifecycle[Len(lifecycle) - 1] = "End"
    /\ lifecycle[Len(lifecycle) - 2] = "Begin"

\* The first n calls of Begin, End, Submit, Begin, End, Submit, ...
LifecycleCycle(n) ==
    [i \in 1 .. n |-> IF i % 3 = 1 THEN "Begin" ELSE IF i % 3 = 2 THEN "End" ELSE "Submit"]

\* C1: Submit() called on a list in state Ended moves it to state Submitted, so
\* after Submit() the list is no longer in Ended.
C1_SubmitMovesEndedToSubmitted ==
    [][(Invoked("Submit") /\ m_state = "Ended") => m_state' = "Submitted"]_vars

\* C2: from a new list, the calls Begin, End, Submit, Begin, End, Submit, ... go
\* on for any number of rounds and none of them fails a state assertion.
C2_LifecycleIsCyclic ==
    (call.op \in LifecycleOps /\ lifecycle = LifecycleCycle(Len(lifecycle)))
        => fatal \notin {FatalState, FatalNull}

\* C3: Begin() in state Recording or Ended fails the state assertion and issues
\* no Reset; a Begin() that leaves the list Recording started in Idle or Submitted.
C3_BeginOnlyFromIdle ==
    [][Invoked("Begin") =>
        /\ m_state \in {"Recording", "Ended"} =>
               /\ fatal' = FatalState
               /\ m_state' = m_state
               /\ d3d12' = d3d12
        /\ (fatal' = NoFatal /\ m_state' = "Recording") => m_state \in {"Idle", "Submitted"}
      ]_vars

\* C3's case: a second Begin() during a recording has failed, after one Reset.
C3_Witness ==
    /\ call.op = "Begin"
    /\ fatal = FatalState
    /\ m_state = "Recording"
    /\ lifecycle = <<"Begin", "Begin">>
    /\ d3d12["Reset"] = 1

\* C4: Begin() on a submitted list (whose GPU execution is over: this backend
\* queues none) resets the command buffer and leaves the list Recording.
C4_BeginAfterSubmitRecords ==
    [][(Invoked("Begin") /\ EndedThenSubmitted) =>
        \/ fatal' = FatalBackend
        \/ /\ fatal' = NoFatal
           /\ m_state' = "Recording"
           /\ d3d12' = Issue(d3d12, "Reset")
      ]_vars

RecordingOnlyOps ==
    {"Draw", "DrawIndexed", "Dispatch", "SetViewport", "SetScissorRectangle",
     "SetBufferVertex", "SetBufferIndex"}

\* C5: Draw, DrawIndexed, Dispatch, SetViewport, SetScissorRectangle,
\* SetBufferVertex and SetBufferIndex outside Recording fail the state assertion
\* with no native call, no cached id changed and no profiler counter incremented.
C5_RecordingOnlyOpsAssertState ==
    [][(ncalls' = ncalls + 1 /\ call'.op \in RecordingOnlyOps /\ m_state # "Recording") =>
        /\ fatal' = FatalState
        /\ UNCHANGED program
      ]_vars

\* C5's case: a scissor rectangle set on an ended list.
C5_Witness ==
    /\ call.op = "SetScissorRectangle"
    /\ m_state = "Ended"
    /\ fatal = FatalState
    /\ d3d12["RSSetScissorRects"] = 0

\* C6: the swap chain Blit and Copy and the image barriers, invoked outside
\* Recording, fail fatally, also when the texture's flag and size are right.
C6_BlitCopyBarrierAssertState ==
    [][(ncalls' = ncalls + 1 /\ call'.op \in ({"Blit", "Copy"} \cup BarrierOps)
            /\ m_state # "Recording")
        => fatal' # NoFatal
      ]_vars

\* C7: End() returns only from Recording, leaving Ended; in any other state it
\* fails the state assertion and the state stays.
C7_EndOnlyFromRecording ==
    [][Invoked("End") =>
        /\ fatal' = NoFatal => (m_state = "Recording" /\ m_state' = "Ended")
        /\ m_state # "Recording" => (fatal' = FatalState /\ m_state' = m_state)
      ]_vars

\* C7's case: End() has closed a recording.
C7_Witness ==
    /\ call.op = "End"
    /\ fatal = NoFatal
    /\ m_state = "Ended"
    /\ d3d12["Close"] = 1

\* C8: while every SetBufferVertex call of the recording has passed the same
\* buffer, the vertex binding counter has been incremented exactly once.
C8_SameBufferCountsOnce ==
    (vb_calls # <<>> /\ \A i \in 1 .. Len(vb_calls) : vb_calls[i] = vb_calls[1])
        => /\ profiler["m_rhi_bindings_buffer_vertex"] = 1
           /\ d3d12["IASetVertexBuffers"] = 1

\* C8's case: three calls with the same buffer.
C8_Witness ==
    /\ Len(vb_calls) = 3
    /\ \A i \in 1 .. 3 : vb_calls[i] = vb_calls[1]
    /\ profiler["m_rhi_bindings_buffer_vertex"] = 1

\* C9: in Recording, a setter called with the cached id changes nothing; called
\* with another id it issues one native bind, caches the id and increments its
\* own counter.  Neither setter touches the other's cache, bind or counter.
C9_SettersBindOnceAndIndependently ==
    [][/\ (Invoked("SetBufferVertex") /\ m_state = "Recording") =>
           /\ fatal' = NoFatal
           /\ m_state' = m_state
           /\ m_index_buffer_id' = m_index_buffer_id
           /\ IF call'.buffer = m_vertex_buffer_id
                  THEN UNCHANGED program
                  ELSE /\ d3d12' = Issue(d3d12, "IASetVertexBuffers")
                       /\ m_vertex_buffer_id' = call'.buffer
                       /\ profiler' = Count(profiler, "m_rhi_bindings_buffer_vertex")
       /\ (Invoked("SetBufferIndex") /\ m_state = "Recording") =>
           /\ fatal' = NoFatal
           /\ m_state' = m_state
           /\ m_vertex_buffer_id' = m_vertex_buffer_id
           /\ IF call'.buffer = m_index_buffer_id
                  THEN UNCHANGED program
                  ELSE /\ d3d12' = Issue(d3d12, "IASetIndexBuffer")
                       /\ m_index_buffer_id' = call'.buffer
                       /\ profiler' = Count(profiler, "m_rhi_bindings_buffer_index")
      ]_vars

\* C9's case: both caches hold a buffer, the two differ, and the last call was
\* an index bind that followed a vertex bind.
C9_Witness ==
    /\ call.op = "SetBufferIndex"
    /\ fatal = NoFatal
    /\ m_index_buffer_id = call.buffer
    /\ m_vertex_buffer_id \in Buffers \ {m_index_buffer_id}
    /\ profiler["m_rhi_bindings_buffer_index"] = 1
    /\ profiler["m_rhi_bindings_buffer_vertex"] = 1

\* C10: a Begin() that follows a recording in which a buffer was bound, ended
\* and submitted, resets the list and leaves both cached ids invalid, so that
\* the next SetBufferVertex / SetBufferIndex of that buffer binds.
C10_BeginInvalidatesCaches ==
    [][(Invoked("Begin") /\ EndedThenSubmitted /\ m_vertex_buffer_id \in Buffers) =>
        \/ fatal' = FatalBackend
        \/ /\ fatal' = NoFatal
           /\ m_vertex_buffer_id' = NoBufferId
           /\ m_index_buffer_id' = NoBufferId
      ]_vars


\* This step is an invocation of some operation of the list.
InvokedAny == ncalls' = ncalls + 1

\* The profiler counter of each draw / dispatch method.
CounterOf(op) == IF op = "Dispatch" THEN "m_rhi_dispatch" ELSE "m_rhi_draw"

\* The native call of each draw / dispatch method.
NativeOf(op) ==
    IF op = "Draw" THEN "DrawInstanced"
    ELSE IF op = "DrawIndexed" THEN "DrawIndexedInstanced"
    ELSE "Dispatch"

DrawOps == {"Draw", "DrawIndexed", "Dispatch"}

IsPrefix(p, q) == Len(p) <= Len(q) /\ \A i \in 1 .. Len(p) : p[i] = q[i]

\* C11: a Draw or DrawIndexed that returns increments the draw counter by one
\* and no other counter, a Dispatch that returns increments the dispatch counter
\* by one and no other counter, and a call that fails increments none.
C11_DrawCountersExact ==
    [][(InvokedAny /\ call'.op \in DrawOps) =>
        /\ fatal' = NoFatal => profiler' = Count(profiler, CounterOf(call'.op))
        /\ fatal' # NoFatal => profiler' = profiler
      ]_vars

\* C11's case: a Draw during a recording has failed in the pre-draw hook and no
\* counter has moved.  (No draw returns on this backend: OnDraw always asserts.)
C11_Witness ==
    /\ call.op = "Draw"
    /\ m_state = "Recording"
    /\ fatal = FatalNotImplemented
    /\ profiler = [c \in ProfilerCounters |-> 0]

\* C12: in Draw, DrawIndexed and Dispatch nothing is called before the state
\* check has passed, then OnDraw, then the native call, then the counter; a
\* native call is issued only by a call whose hook returned.
C12_DrawStepsInOrder ==
    [][(InvokedAny /\ call'.op \in DrawOps) =>
        /\ IsPrefix(call'.steps, <<"OnDraw", NativeOf(call'.op), CounterOf(call'.op)>>)
        /\ m_state # "Recording" => (call'.steps = <<>> /\ fatal' = FatalState)
        /\ d3d12' # d3d12 =>
               /\ d3d12' = Issue(d3d12, NativeOf(call'.op))
               /\ Len(call'.steps) >= 2
               /\ fatal' = NoFatal
      ]_vars

\* C12's case: a DrawIndexed during a recording ran the hook and got no further.
C12_Witness ==
    /\ call.op = "DrawIndexed"
    /\ m_state = "Recording"
    /\ call.steps = <<"OnDraw">>
    /\ d3d12["DrawIndexedInstanced"] = 0

\* C13: Blit to a swap chain fails when the source lacks the ClearBlit flag or
\* is wider or higher than the destination, and returns in every other case.
C13_BlitPreconditions ==
    [][Invoked("Blit") =>
        (fatal' = NoFatal <=>
            (call'.clear_blit /\ call'.sw <= call'.dw /\ call'.sh <= call'.dh))
      ]_vars

\* C13's case: a flagged source as wide as the swap chain and less high.
C13_Witness ==
    /\ call.op = "Blit"
    /\ call.clear_blit
    /\ call.sw = call.dw
    /\ call.sh < call.dh
    /\ fatal = NoFatal

\* C14: Copy to a swap chain returns only for a source with the ClearBlit flag
\* and exactly the destination's width and height, and fails in every other case.
C14_CopyPreconditions ==
    [][Invoked("Copy") =>
        (fatal' = NoFatal <=>
            (call'.clear_blit /\ call'.sw = call'.dw /\ call'.sh = call'.dh))
      ]_vars

\* C14's case: a flagged source smaller than the swap chain is refused.
C14_Witness ==
    /\ call.op = "Copy"
    /\ call.clear_blit
    /\ call.sw < call.dw
    /\ call.sh = call.dh
    /\ fatal = FatalPrecondition

\* The operations this backend does not implement: the asserting stubs, and
\* those whose body records, queues and computes nothing.
UnimplementedOps ==
    StubOps \cup BarrierOps
        \cup {"SetPipelineState", "Submit", "GetTimestampDuration", "Blit", "Copy"}

\* C15: every operation the backend does not implement fails fatally when
\* called; none returns normally.
C15_UnimplementedOpsFail ==
    [][(InvokedAny /\ call'.op \in UnimplementedOps) => fatal' # NoFatal]_vars

\* C16: in whatever state the list is destroyed, the destructor waits for all
\* queues first and releases the native handle after that.
C16_DestroyWaitsThenReleases ==
    [][Invoked("~RHI_CommandList") =>
        /\ call'.steps = <<"QueueWaitAll", "release">>
        /\ m_rhi_resource = "handle"
        /\ m_rhi_resource' = "null"
        /\ fatal' = NoFatal
      ]_vars

\* C16's case: a list destroyed in the middle of a recording.
C16_Witness ==
    /\ call.op = "~RHI_CommandList"
    /\ m_state = "Recording"
    /\ m_rhi_resource = "null"

WaitSteps == {"WaitForExecution", "QueueWaitAll"}

Waits(c) == \E i \in 1 .. Len(c.steps) : c.steps[i] \in WaitSteps

\* C17, as claimed: the only operation that waits for the GPU is Begin().
C17_OnlyBeginWaits ==
    [][(InvokedAny /\ Waits(call')) => call'.op = "Begin"]_vars

\* C17, amended: an operation waits for the GPU exactly when it is the
\* destructor or a Begin() on a Submitted list; Submit() and all others do not.
C17_OnlyBeginAndDestroyWait ==
    [][InvokedAny =>
        (Waits(call') <=>
            \/ call'.op = "~RHI_CommandList"
            \/ call'.op = "Begin" /\ m_state = "Submitted")
      ]_vars

\* C17's case: Submit() has returned without a wait and the destructor, called
\* next, has waited.
C17_Witness ==
    /\ call.op = "~RHI_CommandList"
    /\ Waits(call)
    /\ lifecycle = <<"Begin", "End", "Submit">>
    /\ ncalls = 4

\* ------------------------------------------------- pipeline properties

\* The constructor of the pipeline object has run: it returned, or an assertion
\* in it ended the process.
Attempted == constructed \/ fatal # NoFatal

\* C18: construction from a pipeline state whose IsGraphics() and IsCompute()
\* are equal (both true or both false) fails fatally: the constructor never
\* returns from such a state, with a null pipeline handle or with a pipeline of
\* either kind.
C18_EqualKindsFailFatally ==
    (Attempted /\ IsGraphics(pipeline_state) = IsCompute(pipeline_state))
        => fatal # NoFatal

\* The active colour render targets of a pipeline state: one when a swap chain
\* target is used, otherwise the colour textures that are set.
ActiveColorTargets(ps) ==
    IF ps.render_target_swapchain THEN 1
    ELSE Cardinality({i \in 1 .. rhi_max_render_target_count :
                          ps.render_target_color_textures[i]})

\* C19: the number of colour-blend attachments given to graphics pipeline
\* creation equals the number of colour attachment formats given to the same
\* call, and both equal the number of active colour render targets.
C19_BlendAttachmentsMatchTargets ==
    pipeline_info.kind = "graphics" =>
        /\ pipeline_info.attachmentCount = pipeline_info.colorAttachmentCount
        /\ pipeline_info.colorAttachmentCount = ActiveColorTargets(pipeline_state)

\* One of the three descriptor set layout handles is null.
NullLayout == \E i \in 1 .. 3 : ~layouts[i]

\* A shader that is present in the pipeline state has a null module or a null
\* entry point.
NullStage ==
    \E sh \in {pipeline_state.shader_vertex, pipeline_state.shader_pixel,
               pipeline_state.shader_compute} :
        sh.present /\ (~sh.module \/ ~sh.entry)

\* C20: construction fails fatally when one of the three descriptor set layouts
\* is null (at the layout assertion, before the pipeline layout is created) and
\* when a present shader stage has a null module or entry point (no pipeline
\* creation call is made); every stage given to a pipeline creation call has a
\* non-null module and entry point.
C20_NullSubObjectsFailFatally ==
    /\ (Attempted /\ NullLayout) =>
           /\ fatal = FatalNull
           /\ m_resource_pipeline_layout = Null
           /\ pipeline_layout_info.kind = "none"
    /\ (Attempted /\ NullStage) =>
           /\ fatal # NoFatal
           /\ m_resource_pipeline = Null
           /\ pipeline_info.kind = "none"
    /\ pipeline_info.kind # "none" =>
           \A i \in 1 .. Len(pipeline_info.stages) :
               pipeline_info.stages[i].module /\ pipeline_info.stages[i].pName

\* The layouts are valid and the pipeline layout was created, the pixel shader
\* has a module but no entry point, and the stage assertion ended construction.
C20_Witness ==
    /\ fatal = FatalNull
    /\ ~NullLayout
    /\ m_resource_pipeline_layout = "layout"
    /\ pipeline_state.shader_vertex = ValidShader
    /\ pipeline_state.shader_pixel.present
    /\ pipeline_state.shader_pixel.module
    /\ ~pipeline_state.shader_pixel.entry
    /\ m_resource_pipeline = Null

\* A push constant descriptor of the caller's layout is larger than the device
\* allows.
OversizedPushConstant ==
    \E i \in 1 .. Len(descriptors) :
        /\ descriptors[i].type = "PushConstantBuffer"
        /\ descriptors[i].struct_size > MaxPushConstantSize

\* C21: every push constant range given to pipeline layout creation is no larger
\* than the device's maximum push constant size, and a push constant descriptor
\* that is larger ends construction at the size assertion, before the pipeline
\* layout is created.
C21_PushConstantSizeBounded ==
    /\ pipeline_layout_info.kind = "layout" =>
           \A i \in 1 .. Len(pipeline_layout_info.push_constant_ranges) :
               pipeline_layout_info.push_constant_ranges[i].size <= MaxPushConstantSize
    /\ (Attempted /\ ~NullLayout /\ OversizedPushConstant) =>
           /\ fatal = FatalPushConstantSize
           /\ pipeline_layout_info.kind = "none"
           /\ m_resource_pipeline_layout = Null

\* The layout has a push constant descriptor within the limit followed by one
\* above it, and the size assertion ended construction.
C21_Witness ==
    /\ fatal = FatalPushConstantSize
    /\ Len(descriptors) = 2
    /\ descriptors[1].type = "PushConstantBuffer"
    /\ descriptors[1].struct_size = MaxPushConstantSize
    /\ descriptors[2].type = "PushConstantBuffer"
    /\ descriptors[2].struct_size = MaxPushConstantSize + 1
    /\ m_resource_pipeline_layout = Null

\* C22: the descriptor set layout list of every pipeline layout has three
\* entries: the caller's layout, the comparison sampler layout, the regular
\* sampler layout, in this order, on the graphics and on the compute path.
C22_SetLayoutsOrder ==
    pipeline_layout_info.kind = "layout" =>
        /\ Len(pipeline_layout_info.set_layouts) = 3
        /\ pipeline_layout_info.set_layouts[1] = "descriptor_set_layout"
        /\ pipeline_layout_info.set_layouts[2] = "sampler_comparison"
        /\ pipeline_layout_info.set_layouts[3] = "sampler_regular"

\* A compute pipeline was created with a pipeline layout.
C22_Witness ==
    /\ m_resource_pipeline = "compute"
    /\ m_resource_pipeline_layout = "layout"
    /\ pipeline_layout_info.kind = "layout"

\* The elements of sequence q.
Range(q) == {q[i] : i \in 1 .. Len(q)}

\* C23: the dynamic states given to graphics pipeline creation are the viewport
\* alone when dynamic_scissor is false, and the viewport and the scissor when it
\* is true, each once.
C23_DynamicStates ==
    pipeline_info.kind = "graphics" =>
        /\ Range(pipeline_info.dynamic_states) =
               IF pipeline_state.dynamic_scissor
               THEN {"VK_DYNAMIC_STATE_VIEWPORT", "VK_DYNAMIC_STATE_SCISSOR"}
               ELSE {"VK_DYNAMIC_STATE_VIEWPORT"}
        /\ Len(pipeline_info.dynamic_states) =
               Cardinality(Range(pipeline_info.dynamic_states))

\* A graphics pipeline was created without a dynamic scissor: the viewport is
\* its only dynamic state.
C23_Witness ==
    /\ m_resource_pipeline = "graphics"
    /\ ~pipeline_state.dynamic_scissor
    /\ pipeline_info.dynamic_states = <<"VK_DYNAMIC_STATE_VIEWPORT">>

PresentStageBits ==
    {StageBit(st) : st \in
        {st \in Stages :
            CASE st = "vertex" -> pipeline_state.shader_vertex.present
              [] st = "pixel" -> pipeline_state.shader_pixel.present
              [] st = "compute" -> pipeline_state.shader_compute.present}}

\* C25: the stages given to graphics pipeline creation are the stages of the
\* shaders present in the pipeline state, one entry each; the one stage given
\* to compute pipeline creation is the stage of the compute shader.
C25_StagesArePresentShaders ==
    /\ pipeline_info.kind = "graphics" =>
           /\ {pipeline_info.stages[i].stage : i \in 1 .. Len(pipeline_info.stages)}
                  = PresentStageBits
           /\ Len(pipeline_info.stages) = Cardinality(PresentStageBits)
    /\ pipeline_info.kind = "compute" =>
           /\ Len(pipeline_info.stages) = 1
           /\ pipeline_info.stages[1].stage = "VK_SHADER_STAGE_COMPUTE_BIT"
           /\ pipeline_state.shader_compute.present

\* A graphics pipeline was created from a state with a pixel shader and no
\* vertex shader: the fragment stage is its only stage.
C25_Witness ==
    /\ m_resource_pipeline = "graphics"
    /\ ~pipeline_state.shader_vertex.present
    /\ pipeline_state.shader_pixel.present
    /\ Len(pipeline_info.stages) = 1
    /\ pipeline_info.stages[1].stage = "VK_SHADER_STAGE_FRAGMENT_BIT"

\* The entries of a list of vertex attributes that read the given binding.
OnBinding(attributes, b) ==
    LET reads(a) == a.binding = b IN SelectSeq(attributes, reads)

\* The locations of a list of vertex attributes, in order.
Locations(attributes) ==
    [i \in 1 .. Len(attributes) |-> attributes[i].location]

\* C26: a graphics pipeline's vertex input has no bindings and no attributes
\* when the state has no vertex shader or draws a full screen triangle,
\* whatever the instancing flag; otherwise it has binding 0 at per-vertex rate
\* and the attributes of the shader's input layout on it, and a binding 1, at
\* per-instance rate, exactly when instancing is set.
C26_VertexInputBindings ==
    pipeline_info.kind = "graphics" =>
        LET input == pipeline_info.vertex_input_state
            shader == pipeline_state.shader_vertex
        IN  IF ~shader.present \/ pipeline_state.is_fullscreen_triangle
            THEN input.bindings = <<>> /\ input.attributes = <<>>
            ELSE /\ input.bindings[1].binding = 0
                 /\ input.bindings[1].inputRate = "VK_VERTEX_INPUT_RATE_VERTEX"
                 /\ Locations(OnBinding(input.attributes, 0))
                        = (IF shader.input_layout THEN shader.locations ELSE <<>>)
                 /\ Len(input.bindings) = (IF pipeline_state.instancing THEN 2 ELSE 1)
                 /\ (\E i \in 1 .. Len(input.bindings) : input.bindings[i].binding = 1)
                        <=> pipeline_state.instancing
                 /\ \A i \in 2 .. Len(input.bindings) :
                        /\ input.bindings[i].binding = 1
                        /\ input.bindings[i].inputRate = "VK_VERTEX_INPUT_RATE_INSTANCE"

\* A graphics pipeline was created for a full screen triangle of a state with
\* a vertex shader and instancing set: it has no binding.
C26_Witness ==
    /\ m_resource_pipeline = "graphics"
    /\ pipeline_state.shader_vertex.present
    /\ pipeline_state.is_fullscreen_triangle
    /\ pipeline_state.instancing
    /\ pipeline_info.vertex_input_state.bindings = <<>>

\* C27: with instancing, a graphics pipeline with a vertex input has four
\* attributes on binding 1, at the locations that follow the location of the
\* last attribute of the input layout, with offsets 0, 16, 32 and 48, binding 1
\* has a stride of 64, and no two attributes have the same location.
C27_InstanceAttributesFollowReflected ==
    (/\ pipeline_info.kind = "graphics"
     /\ HasVertexInput(pipeline_state)
     /\ pipeline_state.instancing) =>
        LET input == pipeline_info.vertex_input_state
            reflected == OnBinding(input.attributes, 0)
            appended == OnBinding(input.attributes, 1)
            first == IF reflected = <<>> THEN 0
                     ELSE reflected[Len(reflected)].location + 1
        IN  /\ Len(appended) = 4
            /\ \A k \in 1 .. Len(appended) :
                   /\ appended[k].location = first + (k - 1)
                   /\ appended[k].offset = 16 * (k - 1)
            /\ \A i \in 1 .. Len(input.bindings) :
                   input.bindings[i].binding = 1 => input.bindings[i].stride = 64
            /\ \A i, j \in 1 .. Len(input.attributes) :
                   i # j => input.attributes[i].location # input.attributes[j].location

\* d * 2^24 is below 2^128 in magnitude: the product is a finite float.
ScaledBiasIsFinite(d) == d.m = 0 \/ BitLength(Abs(d.m)) + d.e + 24 <= 128

\* C28 as stated: for a graphics pipeline whose state has a rasterizer state
\* with depth bias d, the depth bias constant factor is floor(d * 2^24) and the
\* depth bias is enabled exactly when d is not zero.
C28_DepthBiasFactor_AnyBias ==
    (pipeline_info.kind = "graphics" /\ pipeline_state.rasterizer_state.present) =>
        LET d == pipeline_state.rasterizer_state.depth_bias
        IN  /\ pipeline_info.rasterizer_state.depthBiasConstantFactor
                   = Floor(Scale(d, 24))
            /\ pipeline_info.rasterizer_state.depthBiasEnable <=> d # FloatZero

\* C28: for a graphics pipeline whose state has a rasterizer state with depth
\* bias d, the depth bias is enabled exactly when d is not zero, and the depth
\* bias constant factor is floor(d * 2^24) when |d| < 2^104, and the infinity of
\* the sign of d for a larger d.
C28_DepthBiasFactor ==
    (pipeline_info.kind = "graphics" /\ pipeline_state.rasterizer_state.present) =>
        LET d == pipeline_state.rasterizer_state.depth_bias
            factor == pipeline_info.rasterizer_state.depthBiasConstantFactor
        IN  /\ pipeline_info.rasterizer_state.depthBiasEnable <=> d # FloatZero
            /\ d = FloatZero => factor = FloatZero
            /\ ScaledBiasIsFinite(d) => factor = Floor(Scale(d, 24))
            /\ ~ScaledBiasIsFinite(d) =>
                   /\ factor.inf
                   /\ factor.m < 0 <=> d.m < 0

\* A graphics pipeline was created from a rasterizer state with depth bias
\* -(2^-25): the bias is enabled and the factor is floor(-1/2) = -1.
C28_Witness ==
    /\ m_resource_pipeline = "graphics"
    /\ pipeline_state.rasterizer_state.present
    /\ pipeline_state.rasterizer_state.depth_bias = [m |-> -1, e |-> -25, inf |-> FALSE]
    /\ pipeline_info.rasterizer_state.depthBiasEnable
    /\ pipeline_info.rasterizer_state.depthBiasConstantFactor
           = [m |-> -1, e |-> 0, inf |-> FALSE]

\* C29: every graphics pipeline is created with minimum depth bound 1.0 and
\* maximum depth bound 0.0, with or without a depth-stencil state.
C29_DepthBoundsReverseZ ==
    pipeline_info.kind = "graphics" =>
        /\ pipeline_info.depth_stencil_state.minDepthBounds = 1
        /\ pipeline_info.depth_stencil_state.maxDepthBounds = 0

\* The depth formats that have a stencil channel.
StencilFormats == {"D32_Float_S8X24_Uint"}

\* C30: the stencil format given to graphics pipeline creation is the depth
\* format when the depth texture's format has a stencil channel and undefined
\* otherwise; without a depth texture both formats are undefined.
C30_StencilFormat ==
    pipeline_info.kind = "graphics" =>
        LET texture == pipeline_state.render_target_depth_texture
        IN  IF texture.present
            THEN /\ pipeline_info.depthAttachmentFormat # "VK_FORMAT_UNDEFINED"
                 /\ pipeline_info.stencilAttachmentFormat =
                        (IF texture.format \in StencilFormats
                         THEN pipeline_info.depthAttachmentFormat
                         ELSE "VK_FORMAT_UNDEFINED")
            ELSE /\ pipeline_info.depthAttachmentFormat = "VK_FORMAT_UNDEFINED"
                 /\ pipeline_info.stencilAttachmentFormat = "VK_FORMAT_UNDEFINED"

\* A graphics pipeline was created with a depth texture whose format has no
\* stencil channel: the depth format is defined and the stencil format is not.
C30_Witness ==
    /\ m_resource_pipeline = "graphics"
    /\ pipeline_state.render_target_depth_texture.present
    /\ pipeline_state.render_target_depth_texture.format = "D32_Float"
    /\ pipeline_info.depthAttachmentFormat = "VK_FORMAT_D32_SFLOAT"
    /\ pipeline_info.stencilAttachmentFormat = "VK_FORMAT_UNDEFINED"

\* The destructor runs in this step.
Destructed == destroyed' /\ ~destroyed

\* C31: the destructor adds to the deletion queue one entry of type Pipeline
\* with the pipeline handle and one of type PipelineLayout with the layout
\* handle, sets both fields to null and destroys nothing; a resource is
\* destroyed only by a step that drains the queue, and only if it was queued.
C31_DestructorDefersDeletion ==
    [][/\ Destructed =>
            /\ deletion_queue' = deletion_queue
                   \o <<[type |-> "Pipeline", resource |-> m_resource_pipeline],
                        [type |-> "PipelineLayout", resource |-> m_resource_pipeline_layout]>>
            /\ m_resource_pipeline' = Null
            /\ m_resource_pipeline_layout' = Null
            /\ released' = released
       /\ released' # released =>
            /\ ~Destructed
            /\ deletion_queue' = <<>>
            /\ released' \ released \subseteq
                   {deletion_queue[i] : i \in 1 .. Len(deletion_queue)}]_vars

\* A graphics pipeline was destroyed and the queue drained afterwards: the
\* fields are null and the device has destroyed both handles.
C31_Witness ==
    /\ destroyed
    /\ deletion_queue = <<>>
    /\ m_resource_pipeline = Null
    /\ m_resource_pipeline_layout = Null
    /\ [type |-> "Pipeline", resource |-> "graphics"] \in released
    /\ [type |-> "PipelineLayout", resource |-> "layout"] \in released

\* C32: the pipeline layout, the graphics pipeline and the compute pipeline
\* that construction creates each get a debug name.
C32_CreatedObjectsNamed ==
    /\ m_resource_pipeline_layout # Null => pipeline_layout_info.named
    /\ m_resource_pipeline # Null => pipeline_info.named

\* The descriptors of the caller's layout that are push constant buffers.
PushConstantDescriptors ==
    LET is_push_constant(d) == d.type = "PushConstantBuffer"
    IN  SelectSeq(descriptors, is_push_constant)

\* C34: a created pipeline layout has one push constant range for each push
\* constant buffer descriptor of the layout, in order, and no other; the range
\* has offset 0, the descriptor's struct size, and the vertex, fragment and
\* compute bits of exactly the stages in the descriptor's stage mask.
C34_PushConstantRanges ==
    pipeline_layout_info.kind = "layout" =>
        LET ranges == pipeline_layout_info.push_constant_ranges IN
        /\ Len(ranges) = Len(PushConstantDescriptors)
        /\ \A i \in 1 .. Len(ranges) :
               /\ ranges[i].offset = 0
               /\ ranges[i].size = PushConstantDescriptors[i].struct_size
               /\ "VK_SHADER_STAGE_VERTEX_BIT" \in ranges[i].stageFlags
                      <=> "vertex" \in PushConstantDescriptors[i].stage
               /\ "VK_SHADER_STAGE_FRAGMENT_BIT" \in ranges[i].stageFlags
                      <=> "pixel" \in PushConstantDescriptors[i].stage
               /\ "VK_SHADER_STAGE_COMPUTE_BIT" \in ranges[i].stageFlags
                      <=> "compute" \in PushConstantDescriptors[i].stage
               /\ ranges[i].stageFlags \subseteq
                      {"VK_SHADER_STAGE_VERTEX_BIT", "VK_SHADER_STAGE_FRAGMENT_BIT",
                       "VK_SHADER_STAGE_COMPUTE_BIT"}

\* A layout was created from a texture descriptor followed by a push constant
\* buffer for the pixel and compute stages: one range, with those two bits.
C34_Witness ==
    /\ m_resource_pipeline_layout = "layout"
    /\ Len(descriptors) = 2
    /\ descriptors[1].type = "Texture"
    /\ descriptors[2].type = "PushConstantBuffer"
    /\ descriptors[2].stage = {"pixel", "compute"}
    /\ Len(pipeline_layout_info.push_constant_ranges) = 1
    /\ pipeline_layout_info.push_constant_ranges[1].stageFlags
           = {"VK_SHADER_STAGE_FRAGMENT_BIT", "VK_SHADER_STAGE_COMPUTE_BIT"}

\* C35: in a created pipeline layout no stage bit is in two push constant
\* ranges.
C35_PushConstantStagesDisjoint ==
    pipeline_layout_info.kind = "layout" =>
        LET ranges == pipeline_layout_info.push_constant_ranges IN
        \A i, j \in 1 .. Len(ranges) :
            i # j => ranges[i].stageFlags \cap ranges[j].stageFlags = {}

\* C36: OnDraw always fails, so no Draw, DrawIndexed or Dispatch returns: the
\* draw and the dispatch counter hold their initial value, no native draw or
\* dispatch has been recorded, and a state whose last call is one of the three
\* is a state after a fatal assertion.
C36_NoDrawCompletes ==
    /\ profiler["m_rhi_draw"] = 0
    /\ profiler["m_rhi_dispatch"] = 0
    /\ d3d12["DrawInstanced"] = 0
    /\ d3d12["DrawIndexedInstanced"] = 0
    /\ d3d12["Dispatch"] = 0
    /\ call.op \in {"Draw", "DrawIndexed", "Dispatch"} => fatal # NoFatal

\* A Dispatch during a recording has failed in the pre-draw hook: the hook is
\* the only step it made, and nothing was dispatched or counted.
C36_Witness ==
    /\ call.op = "Dispatch"
    /\ m_state = "Recording"
    /\ call.steps = <<"OnDraw">>
    /\ fatal = FatalNotImplemented
    /\ d3d12["Dispatch"] = 0
    /\ profiler["m_rhi_dispatch"] = 0

\* The sum of f[t] over the threads in S.
RECURSIVE Total(_, _)
Total(f, S) ==
    IF S = {} THEN 0
    ELSE LET t == CHOOSE x \in S : TRUE IN f[t] + Total(f, S \ {t})

\* Every thread has ended its list.
AllThreadsFinished == \A t \in Threads : lists[t].pc = "ended"

\* C33: when every thread has finished, the vertex and the index binding
\* counter equal the number of native binds made over all lists, and the draw
\* and dispatch counters the number of draws and dispatches that returned
\* (none on this backend).
C33_CountersExactAcrossThreads ==
    AllThreadsFinished =>
        /\ profiler["m_rhi_bindings_buffer_vertex"]
               = Total([t \in Threads |-> lists[t].IASetVertexBuffers], Threads)
        /\ profiler["m_rhi_bindings_buffer_index"]
               = Total([t \in Threads |-> lists[t].IASetIndexBuffer], Threads)
        /\ profiler["m_rhi_draw"] = 0
        /\ profiler["m_rhi_dispatch"] = 0

\* The reload task visits slot s in this step: it is in the loop at s and
\* either calls Compile or moves to the next slot.
Visits(s) ==
    /\ reloader.pc = "loop"
    /\ reloader.index = s
    /\ reloader' # reloader

\* C37: when the loop visits a shader it calls Compile exactly if the shader is
\* non-null, its file exists and the file's last-write time is greater than the
\* recorded time; when Compile has returned the recorded time is the time that
\* was read; a null shader or a missing file leaves the record and the compile
\* count as they are; the compile count of a shader never exceeds the
\* modifications of its file, and is one when a file modified once is recorded.
C37_RecompileWhenNewer ==
    /\ [](\A s \in ShaderSlots :
            /\ compiles[s] <= writes[s]
            /\ (writes[s] = 1 /\ map[s] = files[s].time) => compiles[s] = 1)
    /\ [][\A s \in ShaderSlots :
            /\ Visits(s) =>
                   /\ reloader'.pc = "Compile"
                          <=> (shaders[s] /\ files[s].exists /\ files[s].time > map[s])
                   /\ reloader'.pc = "Compile" => reloader'.d = files[s].time
                   /\ map' = map /\ compiles' = compiles
            /\ compiles'[s] # compiles[s] =>
                   /\ reloader.pc = "Compile" /\ reloader.index = s
                   /\ compiles'[s] = compiles[s] + 1
                   /\ map'[s] = reloader.d
                   /\ reloader.d > map[s]
            /\ map'[s] # map[s] =>
                   (compiles'[s] # compiles[s] \/ reloader.pc = "unstarted")
      ]_vars

\* The file of the first shader was modified once and the loop has recompiled
\* it once and recorded the new time, while the second slot holds no shader and
\* has no record.
C37_Witness ==
    /\ reloader.pc = "loop"
    /\ shaders[1] /\ ~shaders[2]
    /\ writes[1] = 1
    /\ compiles[1] = 1
    /\ map[1] = files[1].time
    /\ files[1].time > 1
    /\ map[2] = 0 /\ compiles[2] = 0

\* C38: while the reload task is inside Compile for a shader, no other thread
\* is using that shader.
C38_CompileIsExclusive ==
    reloader.pc = "Compile" => reloader.index \notin in_use

\* C39: after every ProcessInputFpsControl call the cursor-hidden flag equals
\* the control flag, and the control flag is set only if the right click is
\* held in that call and the control was already held before it or is started
\* by it with a right-click key-down while the mouse is in the viewport.
C39_CursorHiddenIffControlled ==
    /\ [](camera.m_fps_control_cursor_hidden = camera.m_is_controlled_by_keyboard_mouse)
    /\ [][camera'.m_is_controlled_by_keyboard_mouse =>
            /\ input_state'.key
            /\ \/ camera.m_is_controlled_by_keyboard_mouse
               \/ input_state'.key_down /\ input_state'.mouse_in_viewport
      ]_vars

\* The control is held in a call in which the right click is down without a
\* new key-down and the mouse has left the viewport: it was started earlier,
\* and the cursor is hidden.
C39_Witness ==
    /\ camera.m_is_controlled_by_keyboard_mouse
    /\ camera.m_fps_control_cursor_hidden
    /\ input_state.key
    /\ ~input_state.key_down
    /\ ~input_state.mouse_in_viewport
    /\ ~input_state.cursor_visible

\* C40: after every Pick call the selected entity is empty or an entity whose
\* bounding box the ray of that call hit.
C40_SelectionWasHit ==
    camera.m_selected_entity # NoEntity =>
        /\ pick.mouse_in_viewport
        /\ pick.distance[camera.m_selected_entity] # INFINITY_

====
